---- MODULE Spec2Model ----
(***************************************************************************)
(* A model of the ECS combat core of av_r_pg: the entity index of          *)
(* ECSWorld, the Monster AI state machine, the Player Combat System        *)
(* (selection, tryAttack, update, performAttack) and the Skill System      *)
(* (castSkill, cooldowns, effects).                                        *)
(*                                                                         *)
(* Units.  All quantities of the program are floating point; the model     *)
(* keeps them exact by scaling:                                            *)
(*   - wall-clock time (Date.now() / 1000) and every cooldown are counted  *)
(*     in half-seconds;                                                    *)
(*   - positions and ranges are counted in quarter world units; a         *)
(*     position is a point (x, y) of one vertical plane (every entity has  *)
(*     the same z), and distances are compared by their squares;           *)
(*   - health and damage are counted in half hit points (a critical hit    *)
(*     of 25 x 1.5 is 37.5 HP);                                            *)
(*   - probabilities and Math.random() draws are counted in percent;       *)
(*   - deltaTime is counted in half-seconds and speeds in quarter world    *)
(*     units per half-second.                                              *)
(***************************************************************************)
EXTENDS Integers, Sequences, FiniteSets, TLC

VARIABLES
    now,               \* Date.now() / 1000
    entities,          \* ECSWorld.entities: the Map, in insertion order
    aiPlayerEntityId,  \* MonsterAISystem.playerEntityId
    targetingState,    \* PlayerCombatSystem.targetingState
    skillSystem,       \* PlayerCombatSystem.skillSystem is set
    ecsWorld,          \* SkillSystem.ecsWorld is set
    skillCooldowns,    \* SkillSystem.skillCooldowns: caster id -> list
    removals,          \* how many fragments and entities the exterior removed
    lastCall,          \* the last call that returned a value or resolved a tick
                       \* of the Player Combat System, and its outcome
    clearTargetCallback, \* PlayerCombatSystem.clearTargetCallback is set
    currentTarget,     \* the store's currentTarget
    worldSystems,      \* ECSWorld.systems, in registration order
    manager            \* SystemManager: initialized and the names it holds

vars == <<now, entities, aiPlayerEntityId, targetingState, skillSystem,
          ecsWorld, skillCooldowns, removals, lastCall, clearTargetCallback,
          currentTarget, worldSystems, manager>>

(***************************************************************************)
(* Bounds of the model.                                                    *)
(***************************************************************************)
StartTime == 8        \* the wall clock at construction (any value past every cooldown)
MaxClockSteps == 2    \* how many half-seconds the wall clock advances
MaxRemovals == 1      \* how many fragments or entities the exterior removes
MaxProjectiles == 1   \* how many projectile entities casts may spawn

(***************************************************************************)
(* Scaling.                                                                *)
(***************************************************************************)
HP(n) == 2 * n
Units(n) == 4 * n
Seconds(n) == 2 * n

Null == "null"
Undefined == "undefined"

PlayerEntityId == "player_entity"
MonsterId == "monster_1"
ProjectileIds == <<"projectile_1", "projectile_2", "projectile_3">>

\* Math.random(), in percent: a value of [0, 100)
RandomDraws == {0, 99}
\* deltaTime of a tick, in half-seconds
DeltaTimes == {1}

(***************************************************************************)
(* Entity: a Map from fragment kind to fragment.                           *)
(***************************************************************************)
NoComponents == [k \in {} |-> 0]

\* an addComponent that keeps the fragment an entity already has of a kind
addComponentOnce(components, kind, component) ==
    [k \in (DOMAIN components) \cup {kind} |->
        IF k \in DOMAIN components THEN components[k] ELSE component]

addComponent(components, kind, component) ==
    [k \in (DOMAIN components) \cup {kind} |->
        IF k = kind THEN component ELSE components[k]]

removeComponent(components, kind) ==
    [k \in (DOMAIN components) \ {kind} |-> components[k]]

(***************************************************************************)
(* ECSWorld: the entity index, a Map kept in insertion order.              *)
(***************************************************************************)
IndexOf(ents, id) ==
    IF \E i \in 1..Len(ents) : ents[i].id = id
    THEN CHOOSE i \in 1..Len(ents) : ents[i].id = id
    ELSE 0

Exists(ents, id) == IndexOf(ents, id) # 0

getEntity(ents, id) == ents[IndexOf(ents, id)]

hasComponent(ents, id, kind) ==
    /\ Exists(ents, id)
    /\ kind \in DOMAIN getEntity(ents, id).components

getComponent(ents, id, kind) == getEntity(ents, id).components[kind]

\* a fragment is mutated in place: the entity keeps its place in the index
setComponent(ents, id, kind, component) ==
    [ents EXCEPT ![IndexOf(ents, id)].components =
        addComponent(ents[IndexOf(ents, id)].components, kind, component)]

\* a createEntity that adds to the index whatever it holds
createEntityAppends(ents, id) == Append(ents, [id |-> id, components |-> NoComponents])

createEntity(ents, id) ==
    IF Exists(ents, id)
    THEN [ents EXCEPT ![IndexOf(ents, id)] = [id |-> id, components |-> NoComponents]]
    ELSE Append(ents, [id |-> id, components |-> NoComponents])

\* a removeEntity that takes the last entity of the index
removeLastEntity(ents, id) == SubSeq(ents, 1, Len(ents) - 1)

removeEntity(ents, id) ==
    IF Exists(ents, id)
    THEN SubSeq(ents, 1, IndexOf(ents, id) - 1) \o SubSeq(ents, IndexOf(ents, id) + 1, Len(ents))
    ELSE ents

Ids(ents) == {ents[i].id : i \in 1..Len(ents)}

\* THREE.Vector3: a point, and the square of distanceTo
Vector3(x, y) == [x |-> x, y |-> y]

distanceToSquared(a, b) == (a.x - b.x) * (a.x - b.x) + (a.y - b.y) * (a.y - b.y)

\* a.distanceTo(b) <= r and a.distanceTo(b) > r, for a range r >= 0
distanceAtMost(a, b, r) == distanceToSquared(a, b) <= r * r

\* a range check that reaches twice as far
distanceOverTwice(a, b, r) == distanceToSquared(a, b) > 4 * r * r

distanceOver(a, b, r) == distanceToSquared(a, b) > r * r

(***************************************************************************)
(* Fragment factories (CombatComponents.ts).                               *)
(***************************************************************************)
createHealthComponent(max) ==
    [current |-> max, maximum |-> max, regeneration |-> 1]

DefaultDamage == 20          \* 10 HP
DefaultAttackRange == 6      \* 1.5
DefaultAccuracy == 90        \* 0.9
DefaultCriticalChance == 5   \* 0.05
DefaultCriticalMultiplier == 3   \* 1.5, in halves

createCombatStatsComponent(overrides) ==
    [k \in {"damage", "attackRange", "accuracy", "criticalChance", "criticalMultiplier"} |->
        IF k \in DOMAIN overrides THEN overrides[k]
        ELSE CASE k = "damage" -> DefaultDamage
               [] k = "attackRange" -> DefaultAttackRange
               [] k = "accuracy" -> DefaultAccuracy
               [] k = "criticalChance" -> DefaultCriticalChance
               [] k = "criticalMultiplier" -> DefaultCriticalMultiplier]

createFactionComponent(faction) ==
    [faction |-> faction,
     hostile |-> IF faction = "player" THEN {"enemy"}
                 ELSE IF faction = "enemy" THEN {"player"} ELSE {}]

createTransformComponent(position) == [position |-> position, rotationY |-> 0]

createAIComponent(aggroRange, attackCooldown) ==
    [state |-> "idle", target |-> Undefined, lastTargetPosition |-> {},
     aggroRange |-> aggroRange, attackCooldown |-> attackCooldown,
     lastAttackTime |-> 0]

createMovementComponent(speed) == [speed |-> speed, isMoving |-> FALSE]

(***************************************************************************)
(* The scene: the player entity (Player component) and one monster         *)
(* (Monster component), as the exterior creates them.                      *)
(***************************************************************************)
PlayerHealth == 200          \* 100 HP
PlayerDamage == 50           \* 25 HP
PlayerAttackRange == 20      \* 5.0
PlayerMoveSpeed == 6         \* 3.0 per second
GroundY == 2                 \* 0.5: the height entities stand at
MonsterHealth == 100         \* 50 HP
MonsterDamage == 30          \* 15 HP
MonsterAttackRange == 6      \* 1.5
MonsterSpeed == 3            \* 1.5 per second
DefaultAggroRange == 20      \* 5
DefaultAttackCooldown == 2   \* 1 s

PlayerComponents(current, accuracy, criticalChance) ==
    [health |-> [createHealthComponent(PlayerHealth) EXCEPT !.current = current],
     combatStats |-> createCombatStatsComponent(
         [damage |-> PlayerDamage, attackRange |-> PlayerAttackRange,
          accuracy |-> accuracy, criticalChance |-> criticalChance]),
     faction |-> createFactionComponent("player"),
     transform |-> createTransformComponent(Vector3(0, GroundY)),
     movement |-> createMovementComponent(PlayerMoveSpeed)]

MonsterComponents(current, x, faction, state) ==
    [health |-> [createHealthComponent(MonsterHealth) EXCEPT !.current = current],
     combatStats |-> createCombatStatsComponent(
         [damage |-> MonsterDamage, attackRange |-> MonsterAttackRange]),
     faction |-> createFactionComponent(faction),
     transform |-> createTransformComponent(Vector3(x, GroundY)),
     ai |-> [createAIComponent(DefaultAggroRange, DefaultAttackCooldown)
                EXCEPT !.state = state],
     movement |-> createMovementComponent(MonsterSpeed)]

\* where the monster is spawned: at 2.0, 5.0 and 6.0 from the player
MonsterStarts == {Units(2), Units(5), Units(6)}
\* the player's accuracy and criticalChance: the factory's, or a sure plain hit
PlayerProfiles == {<<DefaultAccuracy, DefaultCriticalChance>>, <<100, 0>>}

\* invoked: the arguments the clear-target callback was called with
\* removed: the entity object a removeEntity took out of the index
\* calls: the systems an ECSWorld.update called, each with the ids of its list
Call(op, ret) ==
    [op |-> op, ret |-> ret, attacked |-> Null, invoked |-> <<>>,
     removed |-> Null, calls |-> <<>>]

\* the systems SystemManager.initializeSystems registers, in its order
SystemNames == <<"monsterAI", "playerCombat", "skills", "projectiles", "collision">>

Range(seq) == {seq[i] : i \in 1..Len(seq)}

\* the scene when the systems start running: the player at full health or
\* worn down by earlier monster hits, the monster alive or already killed
Scene(playerCurrent, profile, monsterCurrent, x, faction, state) ==
    <<[id |-> PlayerEntityId,
       components |-> PlayerComponents(playerCurrent, profile[1], profile[2])],
      [id |-> MonsterId,
       components |-> MonsterComponents(monsterCurrent, x, faction, state)]>>

InitSystems ==
    /\ now = StartTime
    /\ targetingState = [selectedTarget |-> Null, lastAttackTime |-> 0]
    /\ skillCooldowns = NoComponents
    /\ removals = 0
    /\ lastCall = Call("none", "void")
    /\ clearTargetCallback = TRUE
    /\ currentTarget = Null
    /\ worldSystems = SystemNames
    /\ manager = [initialized |-> TRUE, systems |-> Range(SystemNames)]

\* the health of a player one monster hit from death, and of a monster one
\* player hit from death
WornDown == MonsterDamage
Wounded == PlayerDamage

\* the combat scenes: a hostile monster at each distance, before a player of
\* either profile; a patrolling one; a neutral one; a hostile one before a
\* worn down player; a wounded hostile one before a player who hits surely
CombatScenes ==
    {Scene(PlayerHealth, profile, MonsterHealth, x, "enemy", "idle") :
        profile \in PlayerProfiles, x \in MonsterStarts}
    \cup {Scene(PlayerHealth, <<DefaultAccuracy, DefaultCriticalChance>>,
                MonsterHealth, x, "enemy", "patrol") : x \in MonsterStarts}
    \cup {Scene(PlayerHealth, <<DefaultAccuracy, DefaultCriticalChance>>,
                MonsterHealth, x, "neutral", "idle") : x \in {Units(2)}}
    \cup {Scene(WornDown, <<DefaultAccuracy, DefaultCriticalChance>>,
                MonsterHealth, x, "enemy", "idle") : x \in {Units(2)}}
    \cup {Scene(PlayerHealth, <<100, 0>>, Wounded, x, "enemy", "idle") :
              x \in {Units(2)}}

\* combat: the player entity is registered with the Monster AI (XRScene),
\* the skills are not wired
Init ==
    /\ InitSystems
    /\ entities \in CombatScenes
    /\ aiPlayerEntityId = PlayerEntityId
    /\ skillSystem = FALSE
    /\ ecsWorld = FALSE

(***************************************************************************)
(* The wall clock.                                                         *)
(***************************************************************************)
AdvanceClock ==
    /\ now < StartTime + MaxClockSteps
    /\ now' = now + 1
    /\ UNCHANGED <<entities, aiPlayerEntityId, targetingState, skillSystem,
                   ecsWorld, skillCooldowns, removals, lastCall,
                   clearTargetCallback, currentTarget, worldSystems, manager>>

(***************************************************************************)
(* Player Combat System.                                                   *)
(***************************************************************************)
AttackCooldown == 2          \* targetingState.attackCooldown: 1.0 s

setTarget(ts, entityId) == [ts EXCEPT !.selectedTarget = entityId]

SetTarget(entityId) ==
    /\ targetingState' = setTarget(targetingState, entityId)
    /\ UNCHANGED <<now, entities, aiPlayerEntityId, skillSystem, ecsWorld,
                   skillCooldowns, removals, lastCall,
                   clearTargetCallback, currentTarget, worldSystems, manager>>

\* a tryAttack() that asks only for a selection
tryAttackNoCooldown(ts, currentTime) == ts.selectedTarget # Null

\* tryAttack(): the value returned
tryAttackReturns(ts, currentTime) ==
    IF currentTime - ts.lastAttackTime < AttackCooldown THEN FALSE
    ELSE IF ts.selectedTarget = Null THEN FALSE
    ELSE TRUE

\* a tryAttack() that stamps lastAttackTime whatever it returns
tryAttackStamps(ts, currentTime) == [ts EXCEPT !.lastAttackTime = currentTime]

\* tryAttack(): the targeting state it leaves
tryAttack(ts, currentTime) ==
    IF tryAttackReturns(ts, currentTime)
    THEN [ts EXCEPT !.lastAttackTime = currentTime]
    ELSE ts

Str(b) == IF b THEN "true" ELSE "false"

TryAttack ==
    /\ targetingState' = tryAttack(targetingState, now)
    /\ lastCall' = Call("tryAttack", Str(tryAttackReturns(targetingState, now)))
    /\ UNCHANGED <<now, entities, aiPlayerEntityId, skillSystem, ecsWorld,
                   skillCooldowns, removals,
                   clearTargetCallback, currentTarget, worldSystems, manager>>

\* damage * criticalMultiplier, the multiplier counted in halves
TimesMultiplier(damage, multiplier) == (damage * multiplier) \div 2

\* PlayerCombatSystem.performAttack with the two Math.random() draws r1, r2:
\* the entities and the targeting state it leaves
playerPerformAttack(ents, ts, attackerId, targetId, r1, r2, callback) ==
    LET attackerStats == getComponent(ents, attackerId, "combatStats")
        targetHealth == getComponent(ents, targetId, "health")
        aggro == IF hasComponent(ents, targetId, "ai")
                 THEN setComponent(ents, targetId, "ai",
                        [getComponent(ents, targetId, "ai") EXCEPT
                            !.state = "chase", !.target = PlayerEntityId])
                 ELSE ents
        damage == IF r2 < attackerStats.criticalChance
                  THEN TimesMultiplier(attackerStats.damage,
                                       attackerStats.criticalMultiplier)
                  ELSE attackerStats.damage
        current == targetHealth.current - damage
    IN  IF r1 > attackerStats.accuracy
        THEN [entities |-> aggro, targetingState |-> ts, invoked |-> <<>>]
        ELSE [entities |-> setComponent(aggro, targetId, "health",
                              [targetHealth EXCEPT !.current = current]),
              targetingState |-> IF current <= 0
                                 THEN [ts EXCEPT !.selectedTarget = Null]
                                 ELSE ts,
              invoked |-> IF current <= 0 /\ callback THEN <<Null>> ELSE <<>>]

\* whether the attack of update passes its cooldown check
attackIsDue(ts, currentTime) == currentTime - ts.lastAttackTime >= AttackCooldown

\* an update that holds every target hostile
anyTargetHostile(ents, playerId, targetId) == TRUE

\* whether update may hit the selected target: it is hostile
isHostileTarget(ents, playerId, targetId) ==
    getComponent(ents, targetId, "faction").faction
        \in getComponent(ents, playerId, "faction").hostile

\* PlayerCombatSystem.update(entities, deltaTime): the entities, the targeting
\* state, the target of the attack it resolved (Null: none) and the arguments
\* it called the clear-target callback with.  callback: one is set.
playerCombatUpdate(ents, ts, currentTime, r1, r2, callback) ==
    LET same == [entities |-> ents, targetingState |-> ts, attacked |-> Null,
                 invoked |-> <<>>]
        cleared == [entities |-> ents,
                    targetingState |-> [ts EXCEPT !.selectedTarget = Null],
                    attacked |-> Null,
                    invoked |-> IF callback THEN <<Null>> ELSE <<>>]
        target == ts.selectedTarget
    IN  IF ~Exists(ents, PlayerEntityId) THEN same
        ELSE IF \E k \in {"transform", "combatStats", "faction", "health"} :
                    ~hasComponent(ents, PlayerEntityId, k) THEN same
        ELSE IF getComponent(ents, PlayerEntityId, "health").current <= 0 THEN same
        ELSE IF target = Null THEN same
        ELSE IF ~Exists(ents, target) THEN cleared
        ELSE IF \E k \in {"transform", "health", "faction"} :
                    ~hasComponent(ents, target, k) THEN cleared
        ELSE IF ~isHostileTarget(ents, PlayerEntityId, target) THEN cleared
        ELSE IF distanceOver(getComponent(ents, PlayerEntityId, "transform").position,
                             getComponent(ents, target, "transform").position,
                             getComponent(ents, PlayerEntityId, "combatStats").attackRange)
             THEN same
        ELSE IF attackIsDue(ts, currentTime)
             THEN LET hit == playerPerformAttack(ents, ts, PlayerEntityId, target,
                                                 r1, r2, callback)
                  IN  [entities |-> hit.entities,
                       targetingState |->
                           [hit.targetingState EXCEPT !.lastAttackTime = currentTime],
                       attacked |-> target,
                       invoked |-> hit.invoked]
        ELSE same

\* the store's setCurrentTarget(entityId), which is the callback the store
\* registers: the store's currentTarget and the targeting state it leaves.
\* It reaches the Player Combat System through the World's systems.
setCurrentTarget(current, ts, entityId, systems) ==
    IF current # entityId
    THEN [currentTarget |-> entityId,
          targetingState |-> IF "playerCombat" \in Range(systems)
                             THEN setTarget(ts, entityId) ELSE ts]
    ELSE [currentTarget |-> current, targetingState |-> ts]

\* the callback calls of a tick, run one after the other
RECURSIVE runCallbacks(_, _, _, _)
runCallbacks(current, ts, invoked, systems) ==
    IF invoked = <<>> THEN [currentTarget |-> current, targetingState |-> ts]
    ELSE LET out == setCurrentTarget(current, ts, Head(invoked), systems)
         IN  runCallbacks(out.currentTarget, out.targetingState, Tail(invoked),
                          systems)

PlayerCombatUpdate ==
    \E r1 \in RandomDraws, r2 \in RandomDraws :
        LET out == playerCombatUpdate(entities, targetingState, now, r1, r2,
                                      clearTargetCallback)
            store == runCallbacks(currentTarget, out.targetingState, out.invoked,
                                  worldSystems)
        IN  /\ entities' = out.entities
            /\ targetingState' = store.targetingState
            /\ currentTarget' = store.currentTarget
            /\ lastCall' = [Call("playerCombat.update", "void")
                               EXCEPT !.attacked = out.attacked,
                                      !.invoked = out.invoked]
            /\ UNCHANGED <<now, aiPlayerEntityId, skillSystem, ecsWorld,
                           skillCooldowns, removals, clearTargetCallback,
                           worldSystems, manager>>

\* the exterior selects through the store (a click on a monster)
SetCurrentTarget(entityId) ==
    LET out == setCurrentTarget(currentTarget, targetingState, entityId,
                                worldSystems)
    IN  /\ currentTarget' = out.currentTarget
        /\ targetingState' = out.targetingState
        /\ UNCHANGED <<now, entities, aiPlayerEntityId, skillSystem, ecsWorld,
                       skillCooldowns, removals, lastCall, clearTargetCallback,
                       worldSystems, manager>>

\* PlayerCombatSystem.setClearTargetCallback, as the store calls it
SetClearTargetCallback ==
    /\ clearTargetCallback' = TRUE
    /\ UNCHANGED <<now, entities, aiPlayerEntityId, targetingState, skillSystem,
                   ecsWorld, skillCooldowns, removals, lastCall, currentTarget,
                   worldSystems, manager>>

(***************************************************************************)
(* Monster AI System.                                                      *)
(***************************************************************************)
AttackEnterRange == 6        \* 1.5: chase -> attack
AttackLeaveRange == 8        \* 2.0: attack -> chase
RandomDamageSpread == 5      \* Math.random() * 5

SetPlayerEntity ==
    /\ aiPlayerEntityId' = PlayerEntityId
    /\ UNCHANGED <<now, entities, targetingState, skillSystem, ecsWorld,
                   skillCooldowns, removals, lastCall,
                   clearTargetCallback, currentTarget, worldSystems, manager>>

Sign(n) == IF n > 0 THEN 1 ELSE IF n < 0 THEN -1 ELSE 0

\* MonsterAISystem.moveTowardsTarget, for a target at the monster's height:
\* the normalized direction is then the sign of the difference of the x values
moveTowardsTarget(ents, monsterId, targetPosition, deltaTime) ==
    IF ~hasComponent(ents, monsterId, "movement") THEN ents
    ELSE LET transform == getComponent(ents, monsterId, "transform")
             movement == getComponent(ents, monsterId, "movement")
             direction == Sign(targetPosition.x - transform.position.x)
             moveDistance == movement.speed * deltaTime
             moved == setComponent(ents, monsterId, "transform",
                         [transform EXCEPT
                             !.position.x = transform.position.x + direction * moveDistance,
                             !.rotationY = direction])
         IN  setComponent(moved, monsterId, "movement",
                          [movement EXCEPT !.isMoving = TRUE])

\* an attack that gives one hit point
monsterDamageNegative(damage, r) == -HP(1)

\* a damage whose random part reaches 10
monsterDamageWide(damage, r) ==
    LET floorHP == (damage * 50 + r * 10) \div 100
    IN  2 * (IF floorHP >= 1 THEN floorHP ELSE 1)

\* Math.max(1, Math.floor(damage + Math.random() * 5)), damage in half HP,
\* the draw r in percent
monsterFinalDamage(damage, r) ==
    LET floorHP == (damage * 50 + r * RandomDamageSpread) \div 100
    IN  2 * (IF floorHP >= 1 THEN floorHP ELSE 1)

\* a performAttack that does not stop at 0
monsterAttackUnclamped(ents, monsterId, targetId, r) ==
    IF ~hasComponent(ents, monsterId, "combatStats")
           \/ ~hasComponent(ents, targetId, "health")
    THEN ents
    ELSE LET targetHealth == getComponent(ents, targetId, "health")
         IN  setComponent(ents, targetId, "health",
                 [targetHealth EXCEPT !.current = targetHealth.current
                     - monsterFinalDamage(
                           getComponent(ents, monsterId, "combatStats").damage, r)])

\* MonsterAISystem.performAttack
monsterPerformAttack(ents, monsterId, targetId, r) ==
    IF ~hasComponent(ents, monsterId, "combatStats")
           \/ ~hasComponent(ents, targetId, "health")
    THEN ents
    ELSE LET targetHealth == getComponent(ents, targetId, "health")
             finalDamage == monsterFinalDamage(
                                getComponent(ents, monsterId, "combatStats").damage, r)
             left == targetHealth.current - finalDamage
         IN  setComponent(ents, targetId, "health",
                 [targetHealth EXCEPT !.current = IF left >= 0 THEN left ELSE 0])

\* an aggro check that reaches one unit too far
inAggroRangeWide(position, playerPosition, aggroRange) ==
    distanceAtMost(position, playerPosition, aggroRange + Units(1))

\* whether an idle or patrolling monster takes up the chase:
\* distanceToPlayer <= aggroRange
inAggroRange(position, playerPosition, aggroRange) ==
    distanceAtMost(position, playerPosition, aggroRange)

\* a chase given up as soon as the player is out of the aggroRange
losesAggroAtOnce(position, playerPosition, aggroRange) ==
    distanceOver(position, playerPosition, aggroRange)

\* whether a chasing monster gives up: distanceToPlayer > aggroRange * 1.5
losesAggro(position, playerPosition, aggroRange) ==
    4 * distanceToSquared(position, playerPosition) > 9 * aggroRange * aggroRange

\* a dead check that lets a monster at exactly 0 health through
skipsBelowZero(health) == health.current < 0

\* the dead check of the tick: health.current <= 0
skipsDead(health) == health.current <= 0

\* a loss of aggro that keeps the target
forgetsStateOnly(ai) == [ai EXCEPT !.state = "idle"]

\* the chase given up: ai.state = 'idle'; ai.target = undefined
dropAggro(ai) == [ai EXCEPT !.state = "idle", !.target = Undefined]

\* a hostility check that spares the player's own faction alone
hostileUnlessOwn(faction) == faction.faction # "player"

\* isPlayerHostile: faction.hostile.includes('player')
isPlayerHostile(faction) == "player" \in faction.hostile

\* the body of monsters.forEach for one monster
monsterStep(ents, monsterId, playerId, currentTime, deltaTime, r) ==
    LET ai == getComponent(ents, monsterId, "ai")
        transform == getComponent(ents, monsterId, "transform")
        health == getComponent(ents, monsterId, "health")
        faction == getComponent(ents, monsterId, "faction")
        playerPosition == getComponent(ents, playerId, "transform").position
        here == transform.position
        setAI(es, a) == setComponent(es, monsterId, "ai", a)
    IN  IF skipsDead(health) THEN setAI(ents, [ai EXCEPT !.state = "dead"])
        ELSE IF ~isPlayerHostile(faction) THEN ents
        ELSE CASE ai.state \in {"idle", "patrol"} ->
                    IF inAggroRange(here, playerPosition, ai.aggroRange)
                    THEN setAI(ents, [ai EXCEPT !.state = "chase",
                                                !.target = playerId,
                                                !.lastTargetPosition = {playerPosition}])
                    ELSE ents
               [] ai.state = "chase" ->
                    LET ai1 == [ai EXCEPT !.lastTargetPosition = {playerPosition}]
                        ai2 == IF distanceAtMost(here, playerPosition, AttackEnterRange)
                               THEN [ai1 EXCEPT !.state = "attack"] ELSE ai1
                        ents2 == IF distanceAtMost(here, playerPosition, AttackEnterRange)
                                 THEN ents
                                 ELSE moveTowardsTarget(ents, monsterId,
                                                        playerPosition, deltaTime)
                        ai3 == IF losesAggro(here, playerPosition, ai.aggroRange)
                               THEN dropAggro(ai2)
                               ELSE ai2
                    IN  setAI(ents2, ai3)
               [] ai.state = "attack" ->
                    LET due == currentTime - ai.lastAttackTime >= ai.attackCooldown
                        ents2 == IF due
                                 THEN monsterPerformAttack(ents, monsterId, playerId, r)
                                 ELSE ents
                        ai1 == IF due THEN [ai EXCEPT !.lastAttackTime = currentTime]
                               ELSE ai
                        ai2 == IF distanceOver(here, playerPosition, AttackLeaveRange)
                               THEN [ai1 EXCEPT !.state = "chase"] ELSE ai1
                    IN  setAI(ents2, ai2)
               [] OTHER -> ents

\* the entities the tick treats as monsters, in the order of the list
isMonster(ents, id) ==
    \A k \in {"ai", "transform", "health", "faction"} : hasComponent(ents, id, k)

RECURSIVE monstersForEach(_, _, _, _, _, _, _)
monstersForEach(ents, list, i, playerId, currentTime, deltaTime, draws) ==
    IF i > Len(list) THEN ents
    ELSE monstersForEach(
            IF isMonster(list, list[i].id)
            THEN monsterStep(ents, list[i].id, playerId, currentTime, deltaTime,
                             draws[list[i].id])
            ELSE ents,
            list, i + 1, playerId, currentTime, deltaTime, draws)

\* MonsterAISystem.update(entities, deltaTime)
monsterAIUpdate(ents, playerEntityId, currentTime, deltaTime, draws) ==
    IF playerEntityId = Null \/ ~Exists(ents, playerEntityId) THEN ents
    ELSE IF ~hasComponent(ents, playerEntityId, "transform") THEN ents
    ELSE monstersForEach(ents, ents, 1, playerEntityId, currentTime, deltaTime, draws)

MonsterAIUpdate ==
    \E deltaTime \in DeltaTimes,
       draws \in [{id \in Ids(entities) : isMonster(entities, id)} -> RandomDraws] :
        /\ entities' = monsterAIUpdate(entities, aiPlayerEntityId, now, deltaTime, draws)
        /\ UNCHANGED <<now, aiPlayerEntityId, targetingState, skillSystem,
                       ecsWorld, skillCooldowns, removals, lastCall,
                   clearTargetCallback, currentTarget, worldSystems, manager>>

(***************************************************************************)
(* Skill System.                                                           *)
(***************************************************************************)
\* the registry: cooldown in half-seconds, damage in half HP, range and
\* effectRadius in quarter units, projectileSpeed in quarter units per
\* half-second; an effectRadius or projectileSpeed of 0 is one left undefined
SKILLS ==
    [fireball |-> [type |-> "projectile", cooldown |-> 4, damage |-> 70,
                   range |-> 60, effectRadius |-> 12, projectileSpeed |-> 16],
     iceShard |-> [type |-> "projectile", cooldown |-> 3, damage |-> 50,
                   range |-> 48, effectRadius |-> 0, projectileSpeed |-> 24],
     lightning |-> [type |-> "projectile", cooldown |-> 2, damage |-> 80,
                    range |-> 80, effectRadius |-> 0, projectileSpeed |-> 40],
     heal |-> [type |-> "self", cooldown |-> 6, damage |-> -100,
               range |-> 0, effectRadius |-> 0, projectileSpeed |-> 0]]

\* SKILLS is an object literal: SKILLS[skillId] also finds the members it
\* inherits from Object.prototype, which are no skill definitions (their
\* cooldown, range and type are undefined)
InheritedKeys == {"toString"}

\* the value of SKILLS[skillId] is truthy
skillFound(skillId) == skillId \in (DOMAIN SKILLS) \cup InheritedKeys

DefaultProjectileSpeed == 20     \* skill.projectileSpeed || 10
ProjectileRaise == 2             \* startPosition.y += 0.5

\* createProjectileComponent
createProjectileComponent(damage, speed, targetPosition, casterFaction, maxRange, onHitEffect, effectRadius) ==
    [damage |-> damage, speed |-> speed, maxRange |-> maxRange,
     travelDistance |-> 0, casterFaction |-> casterFaction,
     targetPosition |-> targetPosition, onHitEffect |-> onHitEffect,
     effectRadius |-> effectRadius]

\* the list of cooldowns of an entity: skillCooldowns.get(entityId) || []
cooldownsOf(cds, entityId) == IF entityId \in DOMAIN cds THEN cds[entityId] ELSE <<>>

cooldownIndex(cooldowns, skillId) ==
    IF \E i \in 1..Len(cooldowns) : cooldowns[i].skillId = skillId
    THEN CHOOSE i \in 1..Len(cooldowns) : cooldowns[i].skillId = skillId
    ELSE 0

\* an isSkillReady that forgets the cooldowns
isSkillReadyAlways(cds, entityId, skillId, currentTime) == TRUE

\* SkillSystem.isSkillReady; a comparison with an undefined cooldown is false
isSkillReady(cds, entityId, skillId, currentTime) ==
    LET cooldowns == cooldownsOf(cds, entityId)
        i == cooldownIndex(cooldowns, skillId)
    IN  IF i = 0 THEN TRUE
        ELSE IF skillId \notin DOMAIN SKILLS THEN FALSE
        ELSE currentTime - cooldowns[i].lastUsedTime >= SKILLS[skillId].cooldown

\* SkillSystem.setSkillCooldown
setSkillCooldown(cds, entityId, skillId, currentTime) ==
    LET cooldowns == cooldownsOf(cds, entityId)
        i == cooldownIndex(cooldowns, skillId)
        newCooldown == [skillId |-> skillId, lastUsedTime |-> currentTime]
    IN  addComponent(cds, entityId,
            IF i > 0 THEN [cooldowns EXCEPT ![i] = newCooldown]
            ELSE Append(cooldowns, newCooldown))

\* the id of a new projectile entity, `projectile_${skill.id}_${Date.now()}`:
\* casts fall in different milliseconds, so the id is one not used before
newProjectileId(ents) ==
    ProjectileIds[CHOOSE i \in 1..Len(ProjectileIds) :
                     /\ ProjectileIds[i] \notin Ids(ents)
                     /\ \A j \in 1..(i - 1) : ProjectileIds[j] \in Ids(ents)]

\* SkillSystem.createProjectile
createProjectile(ents, casterId, skill, targetPosition, casterFaction, worldSet) ==
    IF ~worldSet THEN ents
    ELSE LET id == newProjectileId(ents)
             casterPosition == getComponent(ents, casterId, "transform").position
             startPosition == Vector3(casterPosition.x, casterPosition.y + ProjectileRaise)
             created == createEntity(ents, id)
             placed == setComponent(created, id, "transform",
                                    createTransformComponent(startPosition))
         IN  setComponent(placed, id, "projectile",
                 createProjectileComponent(
                     skill.damage,
                     IF skill.projectileSpeed # 0 THEN skill.projectileSpeed
                     ELSE DefaultProjectileSpeed,
                     targetPosition, casterFaction, skill.range,
                     IF skill.effectRadius # 0 THEN "explosion" ELSE "none",
                     skill.effectRadius))

\* a heal that is not clamped
Unclamped(a, b) == a

\* Math.min
Min(a, b) == IF a <= b THEN a ELSE b

\* what a heal adds to Health.current: Math.abs(skill.damage)
healAmount(skill) == IF skill.damage < 0 THEN -skill.damage ELSE skill.damage

\* SkillSystem.applySelfEffect
applySelfEffect(ents, casterId, skillId) ==
    IF skillId = "heal" /\ hasComponent(ents, casterId, "health")
    THEN LET casterHealth == getComponent(ents, casterId, "health")
         IN  setComponent(ents, casterId, "health",
                 [casterHealth EXCEPT !.current =
                     Min(casterHealth.current + healAmount(SKILLS[skillId]),
                         casterHealth.maximum)])
    ELSE ents

\* SkillSystem.executeSkill.  No skill of the registry has type area or
\* target, and an inherited member has no type: those casts execute nothing.
executeSkill(ents, casterId, skillId, targetPosition, worldSet) ==
    IF skillId \notin DOMAIN SKILLS THEN ents
    ELSE CASE SKILLS[skillId].type = "projectile" ->
                 createProjectile(ents, casterId, SKILLS[skillId], targetPosition,
                     getComponent(ents, casterId, "faction").faction, worldSet)
           [] SKILLS[skillId].type = "self" ->
                 applySelfEffect(ents, casterId, skillId)
           [] OTHER -> ents

\* the range check of castSkill passes: not (distance > skill.range); a
\* comparison with an undefined range is false
inSkillRange(casterPosition, targetPosition, skillId) ==
    IF skillId \in DOMAIN SKILLS
    THEN distanceAtMost(casterPosition, targetPosition, SKILLS[skillId].range)
    ELSE TRUE

\* SkillSystem.castSkill: the value returned
castSkillReturns(ents, cds, casterId, skillId, targetPosition, currentTime) ==
    /\ skillFound(skillId)
    /\ Exists(ents, casterId)
    /\ isSkillReady(cds, casterId, skillId, currentTime)
    /\ \A k \in {"transform", "combatStats", "faction"} : hasComponent(ents, casterId, k)
    /\ inSkillRange(getComponent(ents, casterId, "transform").position,
                    targetPosition, skillId)

\* SkillSystem.castSkill(casterId, skillId, targetPosition, entities): the
\* value returned, the entities and the cooldowns it leaves
castSkill(ents, cds, casterId, skillId, targetPosition, currentTime, worldSet) ==
    IF castSkillReturns(ents, cds, casterId, skillId, targetPosition, currentTime)
    THEN [ret |-> TRUE,
          entities |-> executeSkill(ents, casterId, skillId, targetPosition, worldSet),
          skillCooldowns |-> setSkillCooldown(cds, casterId, skillId, currentTime)]
    ELSE [ret |-> FALSE, entities |-> ents, skillCooldowns |-> cds]

\* the skill ids casts are tried with: the projectile skill of the shortest
\* cooldown, the self skill, an id that is unknown and one that SKILLS inherits
CastSkillIds == {"lightning", "heal", "meteor"} \cup InheritedKeys

\* the positions casts are aimed at: where the monster stands, and the points
\* at exactly the skill's range, and just past it, from the player's spawn
CastTargets(ents, skillId) ==
    {getComponent(ents, id, "transform").position :
        id \in {e \in {MonsterId} : hasComponent(ents, e, "transform")}}
    \cup (IF skillId \in DOMAIN SKILLS
          THEN {Vector3(SKILLS[skillId].range, GroundY),
                Vector3(SKILLS[skillId].range + 1, GroundY)}
          ELSE {})

Projectiles(ents) == {id \in Ids(ents) : hasComponent(ents, id, "projectile")}

\* SkillSystem.castSkill, called with the World's entity list
SkillCastAt(casterId, skillId, targetPosition) ==
    LET out == castSkill(entities, skillCooldowns, casterId, skillId,
                         targetPosition, now, ecsWorld)
    IN  /\ Cardinality(Projectiles(out.entities)) <= MaxProjectiles
        /\ entities' = out.entities
        /\ skillCooldowns' = out.skillCooldowns
        /\ lastCall' = Call("skills.castSkill", Str(out.ret))
        /\ UNCHANGED <<now, aiPlayerEntityId, targetingState, skillSystem,
                       ecsWorld, removals,
                   clearTargetCallback, currentTarget, worldSystems, manager>>

SkillCast(casterId, skillId) ==
    \E targetPosition \in CastTargets(entities, skillId) :
        SkillCastAt(casterId, skillId, targetPosition)

SetSkillSystem ==
    /\ skillSystem' = TRUE
    /\ UNCHANGED <<now, entities, aiPlayerEntityId, targetingState, ecsWorld,
                   skillCooldowns, removals, lastCall,
                   clearTargetCallback, currentTarget, worldSystems, manager>>

SetECSWorld ==
    /\ ecsWorld' = TRUE
    /\ UNCHANGED <<now, entities, aiPlayerEntityId, targetingState, skillSystem,
                   skillCooldowns, removals, lastCall,
                   clearTargetCallback, currentTarget, worldSystems, manager>>

\* PlayerCombatSystem.castSkill(skillId, targetPosition?): the position the
\* cast is aimed at, as a set of at most one point.  given: the argument.
resolveTarget(ents, ts, given, worldSet) ==
    IF given # {} THEN given
    ELSE IF ts.selectedTarget # Null /\ worldSet
            /\ hasComponent(ents, ts.selectedTarget, "transform")
         THEN {getComponent(ents, ts.selectedTarget, "transform").position}
    ELSE {}

\* the player is found dead by castSkill
playerIsDead(ents, worldSet) ==
    /\ worldSet
    /\ hasComponent(ents, PlayerEntityId, "health")
    /\ getComponent(ents, PlayerEntityId, "health").current <= 0

\* PlayerCombatSystem.castSkill(skillId, targetPosition?).  Without a World
\* the Skill System is handed the empty list and finds no caster.
playerCastSkill(ents, cds, ts, skillId, given, currentTime, skillSet, worldSet) ==
    LET refused == [ret |-> FALSE, entities |-> ents, skillCooldowns |-> cds]
        target == resolveTarget(ents, ts, given, worldSet)
    IN  IF ~skillSet THEN refused
        ELSE IF playerIsDead(ents, worldSet) THEN refused
        ELSE IF target = {} THEN refused
        ELSE IF ~worldSet THEN refused
        ELSE castSkill(ents, cds, PlayerEntityId, skillId,
                       CHOOSE t \in target : TRUE, currentTime, worldSet)

PlayerCastSkill(skillId) ==
    \E given \in {{}} \cup {{t} : t \in CastTargets(entities, skillId)} :
        LET out == playerCastSkill(entities, skillCooldowns, targetingState,
                                   skillId, given, now, skillSystem, ecsWorld)
        IN  /\ Cardinality(Projectiles(out.entities)) <= MaxProjectiles
            /\ entities' = out.entities
            /\ skillCooldowns' = out.skillCooldowns
            /\ lastCall' = Call("playerCombat.castSkill", Str(out.ret))
            /\ UNCHANGED <<now, aiPlayerEntityId, targetingState, skillSystem,
                           ecsWorld, removals,
                   clearTargetCallback, currentTarget, worldSystems, manager>>

(***************************************************************************)
(* The exterior: fragments and entities it removes.                        *)
(***************************************************************************)
RemoveComponent(id, kind) ==
    /\ removals < MaxRemovals
    /\ hasComponent(entities, id, kind)
    /\ entities' = [entities EXCEPT ![IndexOf(entities, id)].components =
                        removeComponent(@, kind)]
    /\ removals' = removals + 1
    /\ UNCHANGED <<now, aiPlayerEntityId, targetingState, skillSystem, ecsWorld,
                   skillCooldowns, lastCall,
                   clearTargetCallback, currentTarget, worldSystems, manager>>

RemoveEntity(id) ==
    /\ removals < MaxRemovals
    /\ Exists(entities, id)
    /\ entities' = removeEntity(entities, id)
    /\ removals' = removals + 1
    /\ UNCHANGED <<now, aiPlayerEntityId, targetingState, skillSystem, ecsWorld,
                   skillCooldowns, lastCall,
                   clearTargetCallback, currentTarget, worldSystems, manager>>

Kinds == {"transform", "health", "combatStats", "faction", "ai", "movement"}

\* the fragments the exterior removes in the combat scenes
Removable ==
    ({PlayerEntityId} \X {"transform", "combatStats"}) \cup ({MonsterId} \X Kinds)

\* the fragments the exterior removes in the skill scenes
SkillRemovable ==
    ({PlayerEntityId} \X {"transform", "combatStats", "faction"})
    \cup ({MonsterId} \X {"transform"})

\* who casts what in the skill scenes: the player every id, the monster the
\* self skill
CastPairs == ({PlayerEntityId} \X CastSkillIds) \cup ({MonsterId} \X {"heal"})

\* combat: the clock, the selection, melee and the Monster AI
Next ==
    \/ AdvanceClock
    \/ SetPlayerEntity
    \/ \E id \in {MonsterId, Null} : SetTarget(id)
    \/ TryAttack
    \/ PlayerCombatUpdate
    \/ MonsterAIUpdate
    \/ \E r \in Removable : RemoveComponent(r[1], r[2])
    \/ \E id \in {MonsterId} : RemoveEntity(id)

Spec == Init /\ [][Next]_vars

\* the skill scene: the player at full health, at 70 of 100 or dead
SkillInit ==
    /\ InitSystems
    /\ \E playerCurrent \in {140, 0}, x \in {Units(2)} :
          entities = Scene(playerCurrent, <<DefaultAccuracy, DefaultCriticalChance>>,
                           MonsterHealth, x, "enemy", "idle")
    /\ aiPlayerEntityId = PlayerEntityId
    /\ skillSystem = FALSE
    /\ ecsWorld = FALSE

\* skills: the clock, the World's wiring, the Skill System's casts and the
\* exterior's removals
SkillNext ==
    \/ AdvanceClock
    \/ SetECSWorld
    \/ \E c \in CastPairs : SkillCast(c[1], c[2])
    \/ \E r \in SkillRemovable : RemoveComponent(r[1], r[2])
    \/ \E id \in {PlayerEntityId} : RemoveEntity(id)

SkillSpec == SkillInit /\ [][SkillNext]_vars

\* the calls that answer true or false: tryAttack and the two castSkill,
\* with the wiring, the selection and the removals their answers depend on
CallNext ==
    \/ AdvanceClock
    \/ \E id \in {MonsterId, Null} : SetTarget(id)
    \/ TryAttack
    \/ SetSkillSystem
    \/ SetECSWorld
    \/ \E skillId \in {"heal", "meteor"} : SkillCast(PlayerEntityId, skillId)
    \/ \E skillId \in {"lightning", "heal"} : PlayerCastSkill(skillId)
    \/ \E r \in SkillRemovable : RemoveComponent(r[1], r[2])

CallSpec == SkillInit /\ [][CallNext]_vars

(***************************************************************************)
(* What the claims read from a state.                                      *)
(***************************************************************************)
Has(ents, id, kinds) ==
    Exists(ents, id) /\ \A k \in kinds : hasComponent(ents, id, k)

Current(ents, id) == getComponent(ents, id, "health").current

Position(ents, id) == getComponent(ents, id, "transform").position

AIState(ents, id) == getComponent(ents, id, "ai").state

\* the timestamps recorded for a caster and a skill: none or one
Stamps(cds, casterId, skillId) ==
    {cooldownsOf(cds, casterId)[i].lastUsedTime :
        i \in {j \in 1..Len(cooldownsOf(cds, casterId)) :
                  cooldownsOf(cds, casterId)[j].skillId = skillId}}

\* every point a cast of the scenes may be aimed at
CastPoints == UNION {CastTargets(entities, skillId) : skillId \in CastSkillIds}

\* the player can attack and the selection is a hostile, living,
\* fragment-complete target within attackRange
ReadyToAttack ==
    LET target == targetingState.selectedTarget
    IN  /\ Has(entities, PlayerEntityId, {"transform", "combatStats", "faction", "health"})
        /\ Current(entities, PlayerEntityId) > 0
        /\ target # Null
        /\ Has(entities, target, {"transform", "health", "faction"})
        /\ Current(entities, target) > 0
        /\ getComponent(entities, target, "faction").faction
              \in getComponent(entities, PlayerEntityId, "faction").hostile
        /\ distanceToSquared(Position(entities, PlayerEntityId),
                             Position(entities, target))
              <= getComponent(entities, PlayerEntityId, "combatStats").attackRange
                 * getComponent(entities, PlayerEntityId, "combatStats").attackRange

\* C1: with the player able to attack and a hostile, living, complete target
\* selected within attackRange, the update tick that follows a tryAttack()
\* that returned true resolves one attack on the target; with accuracy 1 and
\* criticalChance 0 the target's Health.current drops by the player's damage.
C1_TryAttackThenUpdateResolves ==
    [][(/\ lastCall = Call("tryAttack", "true")
        /\ lastCall'.op = "playerCombat.update"
        /\ ReadyToAttack)
       => LET target == targetingState.selectedTarget
              stats == getComponent(entities, PlayerEntityId, "combatStats")
          IN  /\ lastCall'.attacked = target
              /\ (stats.accuracy = 100 /\ stats.criticalChance = 0)
                    => Current(entities', target)
                          = Current(entities, target) - stats.damage]_vars

\* C2: whenever PlayerCombatSystem.update reduces a target's Health, the
\* target is in the list, has Transform, Health and Faction, is hostile to
\* the player, and its Health.current was above 0 before the hit.
C2_OnlyLivingTargetsAreHit ==
    [][\A id \in {MonsterId} :
          (/\ PlayerCombatUpdate
           /\ Has(entities, id, {"health"}) /\ Has(entities', id, {"health"})
           /\ Current(entities', id) < Current(entities, id))
          => /\ Has(entities, id, {"transform", "health", "faction"})
             /\ getComponent(entities, id, "faction").faction
                   \in getComponent(entities, PlayerEntityId, "faction").hostile
             /\ Current(entities, id) > 0]_vars

\* C3: tryAttack() returns false whenever less than attackCooldown has passed
\* since lastAttackTime, and whenever nothing is selected; a tryAttack() that
\* returns true stamps lastAttackTime with the present time, and lastAttackTime
\* changes only to the present time (so two calls less than the cooldown
\* apart never both return true).
C3_TryAttackCooldown ==
    /\ [](/\ (now - targetingState.lastAttackTime < Seconds(1))
                => ~tryAttackReturns(targetingState, now)
          /\ targetingState.selectedTarget = Null
                => ~tryAttackReturns(targetingState, now)
          /\ tryAttackReturns(targetingState, now)
                => tryAttack(targetingState, now).lastAttackTime = now)
    /\ [][/\ TryAttack
               => lastCall'.ret = Str(tryAttackReturns(targetingState, now))
          /\ targetingState'.lastAttackTime # targetingState.lastAttackTime
               => targetingState'.lastAttackTime = now]_vars

\* a tryAttack() refused inside the cooldown, with a target selected
C3_Witness ==
    /\ lastCall = Call("tryAttack", "false")
    /\ targetingState.selectedTarget # Null
    /\ targetingState.lastAttackTime >= StartTime
    /\ now - targetingState.lastAttackTime < Seconds(1)

\* the preconditions of castSkill other than the skill id and the cooldown:
\* the caster is in the list with Transform, CombatStats and Faction, and the
\* target position is no farther than the skill's range
CasterInRange(casterId, skillId, targetPosition) ==
    /\ Has(entities, casterId, {"transform", "combatStats", "faction"})
    /\ distanceToSquared(Position(entities, casterId), targetPosition)
          <= SKILLS[skillId].range * SKILLS[skillId].range

\* the cooldown of the pair is not running
CooldownElapsed(casterId, skillId) ==
    \A t \in Stamps(skillCooldowns, casterId, skillId) :
        now - t >= SKILLS[skillId].cooldown

\* what SkillSystem.castSkill would answer and leave in the present state
CastNow(casterId, skillId, targetPosition) ==
    castSkill(entities, skillCooldowns, casterId, skillId, targetPosition, now,
              ecsWorld)

\* C4: for a caster and a skill of the registry, a castSkill inside the
\* cooldown that began with the pair's last successful cast returns false;
\* one outside it returns true when the other preconditions hold, whatever
\* the cooldowns of other pairs, and stamps the pair with the present time;
\* a cast changes no other pair's timestamp, and timestamps change only in a
\* cast that returns true.
C4_PerCasterPerSkillCooldown ==
    /\ [](\A c \in CastPairs : \A targetPosition \in CastTargets(entities, c[2]) :
            c[2] \in DOMAIN SKILLS
            => LET out == CastNow(c[1], c[2], targetPosition)
               IN  /\ ~CooldownElapsed(c[1], c[2]) => ~out.ret
                   /\ (CooldownElapsed(c[1], c[2])
                          /\ CasterInRange(c[1], c[2], targetPosition))
                        => /\ out.ret
                           /\ Stamps(out.skillCooldowns, c[1], c[2]) = {now}
                   /\ \A d \in CastPairs :
                         d # c => Stamps(out.skillCooldowns, d[1], d[2])
                                     = Stamps(skillCooldowns, d[1], d[2]))
    /\ [][skillCooldowns' # skillCooldowns
             => lastCall' = Call("skills.castSkill", "true")]_vars

\* the player's lightning, cast first and cast again once its cooldown was
\* over, while the player's heal is still cooling down
C4_Witness ==
    /\ lastCall = Call("skills.castSkill", "true")
    /\ Len(cooldownsOf(skillCooldowns, PlayerEntityId)) = 2
    /\ cooldownsOf(skillCooldowns, PlayerEntityId)[1]
          = [skillId |-> "lightning", lastUsedTime |-> now]
    /\ cooldownsOf(skillCooldowns, PlayerEntityId)[2].skillId = "heal"
    /\ cooldownsOf(skillCooldowns, PlayerEntityId)[2].lastUsedTime < now

\* C5: SkillSystem.castSkill returns true if and only if the skill id is in
\* the registry, the caster is in the list, the pair's cooldown has elapsed,
\* the caster has Transform, CombatStats and Faction, and the target position
\* is at most skill.range away.
C5_CastSkillTrueIff ==
    [][\A c \in CastPairs, targetPosition \in CastPoints :
          SkillCastAt(c[1], c[2], targetPosition)
          => (lastCall'.ret = "true"
                <=> /\ c[2] \in DOMAIN SKILLS
                    /\ CooldownElapsed(c[1], c[2])
                    /\ CasterInRange(c[1], c[2], targetPosition))]_vars

\* a step of one of the calls that answer true or false
AnswersFalse ==
    /\ lastCall'.ret = "false"
    /\ \/ TryAttack
       \/ \E skillId \in CastSkillIds, targetPosition \in CastPoints :
             SkillCastAt(PlayerEntityId, skillId, targetPosition)
       \/ \E skillId \in CastSkillIds : PlayerCastSkill(skillId)

\* C6: a castSkill (of either system) or a tryAttack that returns false
\* changes no state: the entities and their fragments, the selection,
\* lastAttackTime and the skill cooldowns are as before.
C6_FalseChangesNothing ==
    [][UNCHANGED <<entities, targetingState, skillCooldowns>> \/ ~AnswersFalse]_vars

\* a cast through the wired Player Combat System, refused with a target
\* selected, after a tryAttack had succeeded
C6_Witness ==
    /\ lastCall = Call("playerCombat.castSkill", "false")
    /\ skillSystem /\ ecsWorld
    /\ targetingState.selectedTarget # Null
    /\ targetingState.lastAttackTime >= StartTime

\* C7: a successful heal sets the caster's Health.current to
\* min(current + 50, maximum) and changes no other entity's Health.
C7_HealClamps ==
    \A casterId \in {PlayerEntityId, MonsterId}, targetPosition \in CastPoints :
        LET out == CastNow(casterId, "heal", targetPosition)
        IN  (out.ret /\ Has(entities, casterId, {"health"}))
            => LET health == getComponent(entities, casterId, "health")
                   raised == health.current + HP(50)
               IN  /\ Current(out.entities, casterId)
                         = IF raised <= health.maximum THEN raised
                           ELSE health.maximum
                   /\ Current(out.entities, casterId) <= health.maximum
                   /\ \A id \in Ids(entities) \ {casterId} :
                         Has(entities, id, {"health"})
                         => /\ Has(out.entities, id, {"health"})
                            /\ Current(out.entities, id) = Current(entities, id)

\* the player, 30 HP short of the maximum, healed to exactly the maximum
C7_Witness ==
    /\ lastCall = Call("skills.castSkill", "true")
    /\ Stamps(skillCooldowns, PlayerEntityId, "heal") # {}
    /\ Has(entities, PlayerEntityId, {"health"})
    /\ Current(entities, PlayerEntityId) = PlayerHealth

\* the tick has a registered player with a Transform and the monster has the
\* four fragments of a monster
TickSeesMonster(id) ==
    /\ aiPlayerEntityId = PlayerEntityId
    /\ Has(entities, PlayerEntityId, {"transform"})
    /\ Has(entities, id, {"ai", "transform", "health", "faction"})

\* what one MonsterAISystem.update would leave of the present state
TickNow(deltaTime, r) ==
    monsterAIUpdate(entities, aiPlayerEntityId, now, deltaTime,
                    [id \in Ids(entities) |-> r])

\* C8: in one MonsterAISystem.update, a living monster hostile to the player
\* in state idle or patrol goes to chase with AI.target = the player's id if
\* its distance to the player is <= aggroRange, and otherwise keeps its state
\* (so one that stays farther away never leaves idle through AI updates).
C8_AggroWithinRange ==
    \A id \in {MonsterId}, deltaTime \in DeltaTimes, r \in RandomDraws :
        (/\ TickSeesMonster(id)
         /\ Current(entities, id) > 0
         /\ "player" \in getComponent(entities, id, "faction").hostile
         /\ AIState(entities, id) \in {"idle", "patrol"})
        => LET ai == getComponent(entities, id, "ai")
               out == TickNow(deltaTime, r)
           IN  IF distanceToSquared(Position(entities, id),
                                    Position(entities, PlayerEntityId))
                     <= ai.aggroRange * ai.aggroRange
               THEN /\ AIState(out, id) = "chase"
                    /\ getComponent(out, id, "ai").target = PlayerEntityId
               ELSE getComponent(out, id, "ai") = ai

\* a monster at exactly aggroRange from the player, set chasing by the tick
\* (which, unlike a player's hit, records the player's position)
C8_Witness ==
    /\ Has(entities, MonsterId, {"ai", "transform"})
    /\ Has(entities, PlayerEntityId, {"transform"})
    /\ AIState(entities, MonsterId) = "chase"
    /\ getComponent(entities, MonsterId, "ai").target = PlayerEntityId
    /\ getComponent(entities, MonsterId, "ai").lastTargetPosition
          = {Position(entities, PlayerEntityId)}
    /\ Position(entities, MonsterId).x - Position(entities, PlayerEntityId).x
          = getComponent(entities, MonsterId, "ai").aggroRange

\* C9: once a monster's AI.state is dead, it is dead in every later state.
C9_DeadIsForever ==
    [][\A id \in {MonsterId} :
          (/\ Has(entities, id, {"ai"}) /\ AIState(entities, id) = "dead"
           /\ Has(entities', id, {"ai"}))
          => AIState(entities', id) = "dead"]_vars

GhostId == "monster_gone"

\* the scenes of the selection: a hostile monster, a wounded one and a
\* neutral one, 2.0 from a player who hits surely
TargetScenes ==
    {Scene(PlayerHealth, <<100, 0>>, current, Units(2), faction, "idle") :
        current \in {MonsterHealth, Wounded}, faction \in {"enemy", "neutral"}}

\* the systems are initialized; the store has not yet registered its callback
TargetInit ==
    /\ now = StartTime
    /\ entities \in TargetScenes
    /\ aiPlayerEntityId = PlayerEntityId
    /\ targetingState = [selectedTarget |-> Null, lastAttackTime |-> 0]
    /\ skillSystem = FALSE
    /\ ecsWorld = FALSE
    /\ skillCooldowns = NoComponents
    /\ removals = 0
    /\ lastCall = Call("none", "void")
    /\ clearTargetCallback = FALSE
    /\ currentTarget = Null
    /\ worldSystems = SystemNames
    /\ manager = [initialized |-> TRUE, systems |-> Range(SystemNames)]

TargetNext ==
    \/ AdvanceClock
    \/ SetClearTargetCallback
    \/ \E id \in {MonsterId, GhostId, Null} : SetCurrentTarget(id)
    \/ \E id \in {MonsterId, Null} : SetTarget(id)
    \/ PlayerCombatUpdate
    \/ \E r \in Removable : RemoveComponent(r[1], r[2])
    \/ \E id \in {MonsterId} : RemoveEntity(id)

TargetSpec == TargetInit /\ [][TargetNext]_vars

\* what one PlayerCombatSystem.update would leave of the present state
UpdateNow(r1, r2) ==
    playerCombatUpdate(entities, targetingState, now, r1, r2, clearTargetCallback)

\* the player is present, fragment-complete and alive
PlayerAble ==
    /\ Has(entities, PlayerEntityId, {"transform", "combatStats", "faction", "health"})
    /\ Current(entities, PlayerEntityId) > 0

\* the selection is missing from the list, lacks Transform, Health or
\* Faction, or is of a faction the player is not hostile to
InvalidSelection ==
    LET target == targetingState.selectedTarget
    IN  /\ target # Null
        /\ \/ ~Has(entities, target, {"transform", "health", "faction"})
           \/ getComponent(entities, target, "faction").faction
                 \notin getComponent(entities, PlayerEntityId, "faction").hostile

\* C11: if at a PlayerCombatSystem.update tick (player present, complete and
\* alive) the selection is missing from the list, lacks Transform, Health or
\* Faction, or is not hostile, then after the tick the selection is null, a
\* registered callback has been called once with null (leaving the store's
\* currentTarget null), and no entity, so no Health, has changed.
C11_InvalidSelectionIsCleared ==
    \A r1 \in RandomDraws, r2 \in RandomDraws :
        (PlayerAble /\ InvalidSelection)
        => LET out == UpdateNow(r1, r2)
               store == runCallbacks(currentTarget, out.targetingState,
                                     out.invoked, worldSystems)
           IN  /\ store.targetingState.selectedTarget = Null
               /\ out.entities = entities
               /\ out.attacked = Null
               /\ clearTargetCallback
                     => out.invoked = <<Null>> /\ store.currentTarget = Null

\* a tick that found a neutral monster selected through the store, attacked
\* nothing, called the callback and left both selections null
C11_Witness ==
    /\ lastCall = [Call("playerCombat.update", "void") EXCEPT !.invoked = <<Null>>]
    /\ clearTargetCallback
    /\ targetingState.selectedTarget = Null
    /\ currentTarget = Null
    /\ PlayerAble
    /\ Has(entities, MonsterId, {"transform", "health", "faction"})
    /\ getComponent(entities, MonsterId, "faction").faction = "neutral"
    /\ Current(entities, MonsterId) = MonsterHealth

(***************************************************************************)
(* Projectile System.  Flight is modelled along an axis: the direction of  *)
(* a projectile whose target is level with it or straight above or below   *)
(* it is a unit vector of whole coordinates; the casts of ProjectileNext   *)
(* aim at points level with the projectile's start.                        *)
(***************************************************************************)
\* Entity.destroy: components.clear(); the entity stays in the World's index
destroy(ents, id) == [ents EXCEPT ![IndexOf(ents, id)].components = NoComponents]

\* Vector3.normalize of an axis-parallel vector; the zero vector stays zero
normalize(v) == Vector3(Sign(v.x), Sign(v.y))

HitRadiusSquaredNum == 256       \* 0.8 squared, in quarter units: 256 / 25
HitRadiusSquaredDen == 25
ArrivalDistance == 2             \* 0.5

\* a checkCollisions that lets a projectile hit its caster's faction too
mayBeHitByAnyone(ents, entityId, projectileComp, position) ==
    /\ hasComponent(ents, entityId, "transform")
    /\ hasComponent(ents, entityId, "health")
    /\ hasComponent(ents, entityId, "faction")
    /\ getComponent(ents, entityId, "health").current > 0
    /\ HitRadiusSquaredDen
          * distanceToSquared(position, getComponent(ents, entityId, "transform").position)
          < HitRadiusSquaredNum

\* checkCollisions: the conditions under which the loop returns an entity
mayBeHit(ents, entityId, projectileComp, position) ==
    /\ hasComponent(ents, entityId, "transform")
    /\ hasComponent(ents, entityId, "health")
    /\ hasComponent(ents, entityId, "faction")
    /\ getComponent(ents, entityId, "health").current > 0
    /\ getComponent(ents, entityId, "faction").faction # projectileComp.casterFaction
    /\ HitRadiusSquaredDen
          * distanceToSquared(position, getComponent(ents, entityId, "transform").position)
          < HitRadiusSquaredNum

\* checkCollisions: the first entity of the list the projectile hits, or null
checkCollisions(ents, projectileId) ==
    LET projectileComp == getComponent(ents, projectileId, "projectile")
        position == getComponent(ents, projectileId, "transform").position
        hits == {i \in 1..Len(ents) :
                    /\ ents[i].id # projectileId
                    /\ mayBeHit(ents, ents[i].id, projectileComp, position)}
    IN  IF hits = {} THEN Null
        ELSE ents[CHOOSE i \in hits : \A j \in hits : i <= j].id

\* an explosion that does not fall off with the distance
noFalloff(damage, distanceSquared, effectRadius) == 2 * ((7 * damage) \div 20)

\* Math.floor(damage * 0.7 * (1.0 - distance / effectRadius)), for a distance
\* of at most effectRadius; damage and the result in half HP, so the result
\* is twice the largest whole k with k <= 0.35 * damage * (1 - d / r), that
\* is with 7 * damage * d <= (7 * damage - 20 * k) * r
explosionDamage(damage, distanceSquared, effectRadius) ==
    LET fits(k) ==
            /\ 7 * damage - 20 * k >= 0
            /\ 49 * damage * damage * distanceSquared
                  <= (7 * damage - 20 * k) * (7 * damage - 20 * k)
                        * effectRadius * effectRadius
    IN  2 * (CHOOSE k \in 0..damage : fits(k) /\ ~fits(k + 1))

\* handleExplosion: allEntities.forEach body for one entity
explodeOn(ents, entityId, position, projectileComp) ==
    IF /\ hasComponent(ents, entityId, "transform")
       /\ hasComponent(ents, entityId, "health")
       /\ hasComponent(ents, entityId, "faction")
       /\ getComponent(ents, entityId, "health").current > 0
       /\ getComponent(ents, entityId, "faction").faction # projectileComp.casterFaction
       /\ distanceAtMost(getComponent(ents, entityId, "transform").position,
                         position, projectileComp.effectRadius)
    THEN LET health == getComponent(ents, entityId, "health")
             lost == explosionDamage(projectileComp.damage,
                         distanceToSquared(getComponent(ents, entityId, "transform").position,
                                           position),
                         projectileComp.effectRadius)
         IN  setComponent(ents, entityId, "health",
                          [health EXCEPT !.current = health.current - lost])
    ELSE ents

RECURSIVE handleExplosionFrom(_, _, _, _)
handleExplosionFrom(ents, i, position, projectileComp) ==
    IF i > Len(ents) THEN ents
    ELSE handleExplosionFrom(explodeOn(ents, ents[i].id, position, projectileComp),
                             i + 1, position, projectileComp)

\* handleExplosion
handleExplosion(ents, position, projectileComp) ==
    handleExplosionFrom(ents, 1, position, projectileComp)

\* a hit that removes every projectile, a piercing one too
handleHitAlwaysRemoves(ents, projectileId, targetId) ==
    LET projectileComp == getComponent(ents, projectileId, "projectile")
        targetHealth == getComponent(ents, targetId, "health")
    IN  destroy(setComponent(ents, targetId, "health",
                    [targetHealth EXCEPT
                        !.current = targetHealth.current - projectileComp.damage]),
                projectileId)

\* handleProjectileHit
handleProjectileHit(ents, projectileId, targetId) ==
    LET projectileComp == getComponent(ents, projectileId, "projectile")
        position == getComponent(ents, projectileId, "transform").position
        targetHealth == getComponent(ents, targetId, "health")
        damaged == setComponent(ents, targetId, "health",
                       [targetHealth EXCEPT
                           !.current = targetHealth.current - projectileComp.damage])
        exploded == IF projectileComp.onHitEffect = "explosion"
                       /\ projectileComp.effectRadius # 0
                    THEN handleExplosion(damaged, position, projectileComp)
                    ELSE damaged
    IN  IF projectileComp.onHitEffect # "pierce"
        THEN destroy(exploded, projectileId) ELSE exploded

\* an expiry that looks at the range alone
expiresByRangeOnly(projectileComp, position) ==
    projectileComp.travelDistance >= projectileComp.maxRange

\* updateProjectile: distanceToTarget < 0.5 || travelDistance >= maxRange
expires(projectileComp, position) ==
    \/ distanceToSquared(position, projectileComp.targetPosition)
          < ArrivalDistance * ArrivalDistance
    \/ projectileComp.travelDistance >= projectileComp.maxRange

\* updateProjectile
updateProjectile(ents, projectileId, deltaTime) ==
    LET projectileComp == getComponent(ents, projectileId, "projectile")
        transform == getComponent(ents, projectileId, "transform")
        direction == normalize(Vector3(projectileComp.targetPosition.x - transform.position.x,
                                       projectileComp.targetPosition.y - transform.position.y))
        moveDistance == projectileComp.speed * deltaTime
        newPosition == Vector3(transform.position.x + direction.x * moveDistance,
                               transform.position.y + direction.y * moveDistance)
        flown == [projectileComp EXCEPT !.travelDistance = @ + moveDistance]
        moved == setComponent(
                     setComponent(ents, projectileId, "transform",
                                  [transform EXCEPT !.position = newPosition]),
                     projectileId, "projectile", flown)
        hitEntity == checkCollisions(moved, projectileId)
    IN  IF hitEntity # Null THEN handleProjectileHit(moved, projectileId, hitEntity)
        ELSE IF expires(flown, newPosition) THEN destroy(moved, projectileId)
        ELSE moved

\* ProjectileSystem.update: the projectiles of the list it is given, in order
projectilesOf(ents) ==
    SelectSeq([i \in 1..Len(ents) |-> ents[i].id],
              LAMBDA id : hasComponent(ents, id, "projectile")
                          /\ hasComponent(ents, id, "transform"))

RECURSIVE projectilesForEach(_, _, _)
projectilesForEach(ents, ids, deltaTime) ==
    IF ids = <<>> THEN ents
    ELSE projectilesForEach(updateProjectile(ents, Head(ids), deltaTime),
                            Tail(ids), deltaTime)

\* ProjectileSystem.update; no entity of the model carries a spellEffect
projectileUpdate(ents, deltaTime) ==
    projectilesForEach(ents, projectilesOf(ents), deltaTime)

ProjectileUpdate(deltaTime) ==
    /\ entities' = projectileUpdate(entities, deltaTime)
    /\ lastCall' = Call("projectiles.update", "void")
    /\ UNCHANGED <<now, aiPlayerEntityId, targetingState, skillSystem, ecsWorld,
                   skillCooldowns, removals,
                   clearTargetCallback, currentTarget, worldSystems, manager>>

(***************************************************************************)
(* Projectile flights: a player, a monster on the ground and a second      *)
(* monster at the height projectiles fly at.                               *)
(***************************************************************************)
SecondMonsterId == "monster_2"

FlightHeight == GroundY + ProjectileRaise

\* the x of the first monster: under the flight path, or far from it
FirstMonsterXs == {Units(4), Units(25)}
\* the x of the second monster: 2.0, 3.0 and 4.0 beyond the first
SecondMonsterXs == {Units(6), Units(7), Units(8)}

ProjectileScenes ==
    {Scene(PlayerHealth, <<DefaultAccuracy, DefaultCriticalChance>>,
           MonsterHealth, ax, "enemy", "idle")
       \o <<[id |-> SecondMonsterId,
             components |->
                 [MonsterComponents(current, bx, faction, "idle") EXCEPT
                     !.transform = createTransformComponent(Vector3(bx, FlightHeight))]]>> :
        ax \in FirstMonsterXs, bx \in SecondMonsterXs,
        faction \in {"enemy", "neutral", "player"}, current \in {MonsterHealth, 0}}

ProjectileInit ==
    /\ InitSystems
    /\ entities \in ProjectileScenes
    /\ aiPlayerEntityId = PlayerEntityId
    /\ skillSystem = FALSE
    /\ ecsWorld = FALSE

\* points level with a projectile the player casts: 2.0, 4.0, 8.0 and 12.0 away
LevelTargets == {Vector3(Units(x), FlightHeight) : x \in {2, 4, 8, 12}}

ProjectileDeltaTimes == {1, 2}

\* a cast of the player at a level point; at most MaxProjectiles projectile
\* entities are ever created
ProjectileCast(skillId) ==
    \E targetPosition \in LevelTargets :
        /\ SkillCastAt(PlayerEntityId, skillId, targetPosition)
        /\ Cardinality(Ids(entities') \cap Range(ProjectileIds)) <= MaxProjectiles

ProjectileTick == \E deltaTime \in ProjectileDeltaTimes : ProjectileUpdate(deltaTime)

ProjectileNext ==
    \/ SetECSWorld
    \/ \E skillId \in {"fireball", "lightning"} : ProjectileCast(skillId)
    \/ ProjectileTick

ProjectileSpec == ProjectileInit /\ [][ProjectileNext]_vars


Flying(ents, id) == Has(ents, id, {"projectile", "transform"})

FlyingProjectiles == {id \in Ids(entities) : Flying(entities, id)}

\* the World is ticked again and again: weak fairness of the tick, which is
\* []<>~ENABLED <<A>>_vars \/ []<><<A>>_vars, with the enabling condition
\* written out (a tick changes the state whenever a projectile flies)
ProjectileLiveSpec ==
    ProjectileSpec /\ ([]<>(FlyingProjectiles = {}) \/ []<><<ProjectileTick>>_vars)

\* where a projectile is and how far it has flown at the end of a tick
EndOfTick(id, deltaTime) ==
    LET projectileComp == getComponent(entities, id, "projectile")
        position == Position(entities, id)
        step == projectileComp.speed * deltaTime
    IN  [travelDistance |-> projectileComp.travelDistance + step,
         position |->
             Vector3(position.x + Sign(projectileComp.targetPosition.x - position.x) * step,
                     position.y + Sign(projectileComp.targetPosition.y - position.y) * step)]

\* the living entities of another faction less than 0.8 from a point
InReach(id, position) ==
    {e \in Ids(entities) \ {id} :
        /\ Has(entities, e, {"transform", "health", "faction"})
        /\ Current(entities, e) > 0
        /\ getComponent(entities, e, "faction").faction
              # getComponent(entities, id, "projectile").casterFaction
        /\ 25 * distanceToSquared(position, Position(entities, e)) < 256}

\* the flight ends at the end of the tick: the range is flown or the target
\* is less than 0.5 away
EndsFlight(id, deltaTime) ==
    LET end == EndOfTick(id, deltaTime)
        projectileComp == getComponent(entities, id, "projectile")
    IN  \/ end.travelDistance >= projectileComp.maxRange
        \/ distanceToSquared(end.position, projectileComp.targetPosition) < 4

\* C12: under ticks with deltaTime > 0 every projectile (speed > 0) is
\* eventually destroyed, its fragments cleared; a projectile that hits nothing
\* in a tick is destroyed in that tick exactly if at the tick's end it has
\* flown maxRange or is less than 0.5 from targetPosition, and otherwise
\* flies on, speed * deltaTime farther.
C12_ProjectilesExpire ==
    /\ [](\A id \in FlyingProjectiles, deltaTime \in ProjectileDeltaTimes :
            (/\ getComponent(entities, id, "projectile").speed > 0
             /\ InReach(id, EndOfTick(id, deltaTime).position) = {})
            => LET out == updateProjectile(entities, id, deltaTime)
               IN  /\ EndsFlight(id, deltaTime) <=> out[IndexOf(out, id)].components = NoComponents
                   /\ ~EndsFlight(id, deltaTime)
                         => /\ Flying(out, id)
                            /\ getComponent(out, id, "projectile").travelDistance
                                  = EndOfTick(id, deltaTime).travelDistance
                            /\ Position(out, id) = EndOfTick(id, deltaTime).position
                   /\ \A e \in Ids(entities) \ {id} :
                         out[IndexOf(out, e)] = entities[IndexOf(entities, e)])
    /\ \A i \in 1..Len(ProjectileIds) :
          Flying(entities, ProjectileIds[i]) ~> ~Flying(entities, ProjectileIds[i])

\* a tick has destroyed a projectile that hit nothing: every Health is as the
\* scene began with
C12_Witness ==
    /\ lastCall.op = "projectiles.update"
    /\ Exists(entities, ProjectileIds[1])
    /\ getEntity(entities, ProjectileIds[1]).components = NoComponents
    /\ Current(entities, MonsterId) = MonsterHealth
    /\ Current(entities, SecondMonsterId) = MonsterHealth
    /\ Current(entities, PlayerEntityId) = PlayerHealth

\* k HP is Math.floor(damage * 0.7 * (1 - d / r)), with damage in half HP
IsFloorOfFalloff(k, damage, distanceSquared, r) ==
    /\ k >= 0
    /\ 7 * damage - 20 * k >= 0
    /\ 49 * damage * damage * distanceSquared
          <= (7 * damage - 20 * k) * (7 * damage - 20 * k) * r * r
    /\ \/ 7 * damage - 20 * (k + 1) < 0
       \/ 49 * damage * damage * distanceSquared
             > (7 * damage - 20 * (k + 1)) * (7 * damage - 20 * (k + 1)) * r * r

\* what the explosion of a projectile at a point is to take from an entity
\* whose Health.current is current when the explosion happens
ExplosionLossOk(lost, id, e, current, position) ==
    LET projectileComp == getComponent(entities, id, "projectile")
        distanceSquared == distanceToSquared(Position(entities, e), position)
        r == projectileComp.effectRadius
    IN  IF /\ current > 0
           /\ getComponent(entities, e, "faction").faction # projectileComp.casterFaction
           /\ distanceSquared <= r * r
        THEN /\ lost % 2 = 0
             /\ IsFloorOfFalloff(lost \div 2, projectileComp.damage, distanceSquared, r)
             /\ distanceSquared = r * r => lost = 0
        ELSE lost = 0

\* C13: when a projectile with onHitEffect = explosion hits, the entity hit
\* loses damage, and on top of it every entity living then, not of the
\* caster's faction and at a distance d <= effectRadius r of the impact point
\* loses exactly floor(damage * 0.7 * (1 - d / r)), which is 0 at d = r;
\* entities farther away, dead ones and the caster's faction lose nothing.
C13_ExplosionFalloff ==
    \A id \in FlyingProjectiles, deltaTime \in ProjectileDeltaTimes :
        LET projectileComp == getComponent(entities, id, "projectile")
            impact == EndOfTick(id, deltaTime).position
            out == updateProjectile(entities, id, deltaTime)
        IN  (projectileComp.onHitEffect = "explosion" /\ InReach(id, impact) # {})
            => \E hit \in InReach(id, impact) :
                  \A e \in {x \in Ids(entities) \ {id} :
                               Has(entities, x, {"transform", "health", "faction"})} :
                      LET direct == IF e = hit THEN projectileComp.damage ELSE 0
                      IN  ExplosionLossOk(
                              Current(entities, e) - direct - Current(out, e),
                              id, e, Current(entities, e) - direct, impact)

\* a fireball has hit the first monster half a unit under it (70 and, the
\* monster living on, 40 of the explosion) and taken 16 of the second monster
\* 2.0 from the impact, or nothing of one 3.0 from it
C13_Witness ==
    /\ lastCall.op = "projectiles.update"
    /\ Exists(entities, ProjectileIds[1])
    /\ getEntity(entities, ProjectileIds[1]).components = NoComponents
    /\ Current(entities, MonsterId) = MonsterHealth - 70 - 40
    /\ getComponent(entities, SecondMonsterId, "faction").faction = "neutral"
    /\ Position(entities, SecondMonsterId).x = Units(6)
    /\ Current(entities, SecondMonsterId) = MonsterHealth - 16

(***************************************************************************)
(* Entity and ECSWorld called by the exterior, from an empty World.        *)
(***************************************************************************)
\* ECSWorld.removeEntity: the value returned, the index left and the entity
\* object, which whoever held it still holds
removeEntityCall(ents, id) ==
    IF Exists(ents, id)
    THEN [ret |-> TRUE, entities |-> removeEntity(ents, id),
          removed |-> getEntity(destroy(ents, id), id)]
    ELSE [ret |-> FALSE, entities |-> ents, removed |-> Null]

\* Entity.removeComponent: Map.delete answers whether the key was there
removeComponentReturns(ents, id, kind) == hasComponent(ents, id, kind)

EntityIds == {MonsterId, SecondMonsterId}

\* the fragments the exterior adds, by kind
Fragments ==
    [health |-> {createHealthComponent(MonsterHealth), createHealthComponent(PlayerHealth)},
     transform |-> {createTransformComponent(Vector3(0, GroundY))}]

EntityInit ==
    /\ InitSystems
    /\ entities = <<>>
    /\ aiPlayerEntityId = Null
    /\ skillSystem = FALSE
    /\ ecsWorld = FALSE

WorldCreateEntity(id) ==
    /\ entities' = createEntity(entities, id)
    /\ lastCall' = Call("world.createEntity", id)
    /\ UNCHANGED <<now, aiPlayerEntityId, targetingState, skillSystem, ecsWorld,
                   skillCooldowns, removals,
                   clearTargetCallback, currentTarget, worldSystems, manager>>

WorldRemoveEntity(id) ==
    LET out == removeEntityCall(entities, id)
    IN  /\ entities' = out.entities
        /\ lastCall' = [Call("world.removeEntity", Str(out.ret)) EXCEPT
                           !.removed = out.removed]
        /\ UNCHANGED <<now, aiPlayerEntityId, targetingState, skillSystem, ecsWorld,
                       skillCooldowns, removals,
                       clearTargetCallback, currentTarget, worldSystems, manager>>

\* entity.addComponent(component) on an entity of the index
EntityAddComponent(id, kind, component) ==
    /\ Exists(entities, id)
    /\ entities' = setComponent(entities, id, kind, component)
    /\ lastCall' = Call("entity.addComponent", id)
    /\ UNCHANGED <<now, aiPlayerEntityId, targetingState, skillSystem, ecsWorld,
                   skillCooldowns, removals,
                   clearTargetCallback, currentTarget, worldSystems, manager>>

\* entity.removeComponent(kind) on an entity of the index
EntityRemoveComponent(id, kind) ==
    /\ Exists(entities, id)
    /\ entities' = [entities EXCEPT ![IndexOf(entities, id)].components =
                        removeComponent(@, kind)]
    /\ lastCall' = Call("entity.removeComponent",
                        Str(removeComponentReturns(entities, id, kind)))
    /\ UNCHANGED <<now, aiPlayerEntityId, targetingState, skillSystem, ecsWorld,
                   skillCooldowns, removals,
                   clearTargetCallback, currentTarget, worldSystems, manager>>

\* entity.destroy() on an entity of the index
EntityDestroy(id) ==
    /\ Exists(entities, id)
    /\ entities' = destroy(entities, id)
    /\ lastCall' = Call("entity.destroy", "void")
    /\ UNCHANGED <<now, aiPlayerEntityId, targetingState, skillSystem, ecsWorld,
                   skillCooldowns, removals,
                   clearTargetCallback, currentTarget, worldSystems, manager>>

EntityNext ==
    \/ \E id \in EntityIds : WorldCreateEntity(id)
    \/ \E id \in EntityIds : WorldRemoveEntity(id)
    \/ \E id \in EntityIds, kind \in DOMAIN Fragments :
          \E component \in Fragments[kind] : EntityAddComponent(id, kind, component)
    \/ \E id \in EntityIds, kind \in DOMAIN Fragments : EntityRemoveComponent(id, kind)
    \/ \E id \in EntityIds : EntityDestroy(id)

EntitySpec == EntityInit /\ [][EntityNext]_vars

\* C14: for every entity and kind k, after addComponent of a kind-k fragment
\* hasComponent(k) is true and getComponent(k) is that fragment, whatever
\* kind-k fragment the entity had, and its other fragments are as they were;
\* after removeComponent(k) or destroy(), hasComponent(k) is false.
C14_FragmentsByKind ==
    \A id \in Ids(entities), kind \in DOMAIN Fragments :
        /\ \A component \in Fragments[kind] :
              LET added == setComponent(entities, id, kind, component)
              IN  /\ hasComponent(added, id, kind)
                  /\ getComponent(added, id, kind) = component
                  /\ DOMAIN getEntity(added, id).components
                        = DOMAIN getEntity(entities, id).components \cup {kind}
                  /\ \A other \in DOMAIN getEntity(entities, id).components \ {kind} :
                        getComponent(added, id, other) = getComponent(entities, id, other)
        /\ ~(kind \in DOMAIN removeComponent(getEntity(entities, id).components, kind))
        /\ ~hasComponent(destroy(entities, id), id, kind)

\* a second health fragment was added to an entity that had one and a
\* transform: it has the second, and the transform still
C14_Witness ==
    /\ lastCall = Call("entity.addComponent", MonsterId)
    /\ Has(entities, MonsterId, {"health", "transform"})
    /\ getComponent(entities, MonsterId, "health") = createHealthComponent(PlayerHealth)
    /\ Has(entities, SecondMonsterId, {"health"})
    /\ getComponent(entities, SecondMonsterId, "health") = createHealthComponent(MonsterHealth)

CollisionRadius == 2             \* COLLISION_RADIUS = 0.5
SeparationForce == 2             \* SEPARATION_FORCE = 2.0 (per second)
MaxX == 36                       \* maxX = 9; minX = -9
StableY == 2                     \* transform.position.y = 0.5

\* Math.max(lo, Math.min(hi, v))
Clamp(lo, hi, v) == IF v < lo THEN lo ELSE IF v > hi THEN hi ELSE v

\* constrainToBounds
constrainToBounds(transform) ==
    [transform EXCEPT !.position = Vector3(Clamp(-MaxX, MaxX, transform.position.x), StableY)]

Abs(n) == IF n < 0 THEN -n ELSE n

\* a collision check that takes in a pair at the same position
overlapsOrCoincides(distance, combinedRadius) == distance < combinedRadius

\* the collision check: distance < combinedRadius && distance > 0
overlaps(distance, combinedRadius) == distance < combinedRadius /\ distance > 0

\* resolveCollision, for entities on a line parallel to an axis.
\* separationDistance * damping = overlap * 0.5 * SEPARATION_FORCE * deltaTime,
\* with deltaTime in half-seconds: overlap * SeparationForce * deltaTime / 4
resolveCollision(ents, idA, idB, deltaTime) ==
    LET transformA == getComponent(ents, idA, "transform")
        transformB == getComponent(ents, idB, "transform")
        difference == Vector3(transformA.position.x - transformB.position.x,
                              transformA.position.y - transformB.position.y)
        distance == Abs(difference.x) + Abs(difference.y)
        combinedRadius == CollisionRadius * 2
    IN  IF overlaps(distance, combinedRadius)
        THEN LET direction == normalize(difference)
                 overlap == combinedRadius - distance
                 separation == (overlap * SeparationForce * deltaTime) \div 4
                 movedA == [transformA EXCEPT !.position =
                               Vector3(@.x + direction.x * separation,
                                       @.y + direction.y * separation)]
                 movedB == [transformB EXCEPT !.position =
                               Vector3(@.x - direction.x * separation,
                                       @.y - direction.y * separation)]
             IN  setComponent(
                     setComponent(ents, idA, "transform", constrainToBounds(movedA)),
                     idB, "transform", constrainToBounds(movedB))
        ELSE ents

\* CollisionSystem.update: the entities with a transform, in list order
collidableEntities(ents) ==
    SelectSeq([i \in 1..Len(ents) |-> ents[i].id],
              LAMBDA id : hasComponent(ents, id, "transform"))

\* the pairs (i, j), i < j, in the order of the two loops, from (i, j) on
RECURSIVE resolvePairs(_, _, _, _, _)
resolvePairs(ents, ids, i, j, deltaTime) ==
    IF i > Len(ids) THEN ents
    ELSE IF j > Len(ids) THEN resolvePairs(ents, ids, i + 1, i + 2, deltaTime)
    ELSE resolvePairs(resolveCollision(ents, ids[i], ids[j], deltaTime),
                      ids, i, j + 1, deltaTime)

\* CollisionSystem.update
collisionUpdate(ents, deltaTime) ==
    resolvePairs(ents, collidableEntities(ents), 1, 2, deltaTime)

CollisionUpdate(deltaTime) ==
    /\ entities' = collisionUpdate(entities, deltaTime)
    /\ lastCall' = Call("collision.update", "void")
    /\ UNCHANGED <<now, aiPlayerEntityId, targetingState, skillSystem, ecsWorld,
                   skillCooldowns, removals,
                   clearTargetCallback, currentTarget, worldSystems, manager>>

\* ticks of 1 s and 2 s: the separations are whole quarter units
CollisionDeltaTimes == {2, 4}

\* where the first and the second monster stand: about the player, about the
\* eastern bound and beyond it
FirstCollisionXs == {1, 2, 3, Units(9) - 2, Units(9), Units(10)}
SecondCollisionXs == {-2, 2, 3, 5, Units(9) - 3, Units(9) - 1, Units(9), Units(11)}

CollisionScenes ==
    {Scene(PlayerHealth, <<DefaultAccuracy, DefaultCriticalChance>>,
           MonsterHealth, ax, "enemy", "idle")
       \o <<[id |-> SecondMonsterId,
             components |-> MonsterComponents(MonsterHealth, bx, "enemy", "idle")]>> :
        ax \in FirstCollisionXs, bx \in SecondCollisionXs}

CollisionInit ==
    /\ InitSystems
    /\ entities \in CollisionScenes
    /\ aiPlayerEntityId = PlayerEntityId
    /\ skillSystem = FALSE
    /\ ecsWorld = FALSE

\* the exterior takes the transform off an entity, or an entity out of the
\* World, between two ticks
CollisionNext ==
    \/ \E deltaTime \in CollisionDeltaTimes : CollisionUpdate(deltaTime)
    \/ \E id \in {MonsterId, SecondMonsterId} : RemoveComponent(id, "transform")
    \/ \E id \in {MonsterId} : RemoveEntity(id)

CollisionSpec == CollisionInit /\ [][CollisionNext]_vars

\* the entities of the World that carry a Transform
Collidable == {id \in Ids(entities) : hasComponent(entities, id, "transform")}

\* C17: for any two Transform-carrying entities A and B whose distance is
\* strictly between 0 and 1.0, the displacement one collision resolution
\* gives A is the opposite of the displacement it gives B (equal in
\* magnitude, opposite in direction).
C17_SeparationIsSymmetric ==
    \A idA \in Collidable, idB \in Collidable, deltaTime \in CollisionDeltaTimes :
        LET squared == distanceToSquared(Position(entities, idA), Position(entities, idB))
            out == resolveCollision(entities, idA, idB, deltaTime)
        IN  (idA # idB /\ squared > 0 /\ squared < Units(1) * Units(1))
            => /\ Position(out, idA).x - Position(entities, idA).x
                     = -(Position(out, idB).x - Position(entities, idB).x)
               /\ Position(out, idA).y - Position(entities, idA).y
                     = -(Position(out, idB).y - Position(entities, idB).y)

\* C18: after every CollisionSystem.update every entity carrying a Transform
\* has its horizontal position inside [-9, 9], whether or not it overlapped
\* another entity in that tick.
C18_EveryoneInsideBounds ==
    lastCall.op = "collision.update"
    => \A id \in Collidable :
          /\ Position(entities, id).x >= -Units(9)
          /\ Position(entities, id).x <= Units(9)

(***************************************************************************)
(* ECSWorld.update and the registration of systems.                        *)
(***************************************************************************)
MaxSpawned == 1

\* a System of the exterior whose update creates an entity in the World
\* (ECSWorld.createEntity), MaxSpawned times at most
SpawnerName == "spawner"
SpawnedIds == <<"spawned_1", "spawned_2", "spawned_3">>

spawnerUpdate(ents) ==
    LET spawned == Ids(ents) \cap Range(SpawnedIds)
    IN  IF Cardinality(spawned) < MaxSpawned
        THEN createEntity(ents, SpawnedIds[Cardinality(spawned) + 1])
        ELSE ents

\* the ids of a list of entities, in order
IdsOf(ents) == [i \in 1..Len(ents) |-> ents[i].id]

\* an update that hands each system the index as it is when the system is called
listNow(ents, n) == ents

\* the list ECSWorld.update hands every system: the n entities
\* getAllEntities() returned at the start of the call.  Entities created since
\* are behind them in the index; no system takes an entity out of it.
listGiven(ents, n) == SubSeq(ents, 1, n)

\* system.update(entities, deltaTime) of one system of the list.  st: the
\* World's index, the Player Combat System's selection, the store's and the
\* calls made so far
systemUpdate(name, st, n, playerEntityId, currentTime, deltaTime, draws, r1, r2, callback, systems) ==
    LET list == listGiven(st.entities, n)
        rest == SubSeq(st.entities, Len(list) + 1, Len(st.entities))
        called == [st EXCEPT !.calls =
                      Append(@, [system |-> name, list |-> IdsOf(list),
                                 carrying |-> {list[i].id : i \in
                                     {j \in 1..Len(list) :
                                         list[j].components # NoComponents}}])]
    IN  CASE name = "monsterAI" ->
                 [called EXCEPT !.entities =
                     monsterAIUpdate(list, playerEntityId, currentTime, deltaTime, draws)
                         \o rest]
          [] name = "playerCombat" ->
                 LET out == playerCombatUpdate(list, st.targetingState, currentTime,
                                               r1, r2, callback)
                     store == runCallbacks(st.currentTarget, out.targetingState,
                                           out.invoked, systems)
                 IN  [called EXCEPT !.entities = out.entities \o rest,
                                    !.targetingState = store.targetingState,
                                    !.currentTarget = store.currentTarget]
          [] name = "projectiles" ->
                 [called EXCEPT !.entities = projectileUpdate(list, deltaTime) \o rest]
          [] name = "collision" ->
                 [called EXCEPT !.entities = collisionUpdate(list, deltaTime) \o rest]
          [] name = SpawnerName ->
                 [called EXCEPT !.entities = spawnerUpdate(st.entities)]
          [] OTHER -> called      \* SkillSystem.update does nothing

RECURSIVE systemsForEach(_, _, _, _, _, _, _, _, _, _, _)
systemsForEach(systems, i, st, n, playerEntityId, currentTime, deltaTime, draws, r1, r2, callback) ==
    IF i > Len(systems) THEN st
    ELSE systemsForEach(systems, i + 1,
             systemUpdate(systems[i], st, n, playerEntityId, currentTime, deltaTime,
                          draws, r1, r2, callback, systems),
             n, playerEntityId, currentTime, deltaTime, draws, r1, r2, callback)

\* ECSWorld.update
worldUpdate(ents, ts, current, systems, playerEntityId, currentTime, deltaTime, draws, r1, r2, callback) ==
    systemsForEach(systems, 1,
        [entities |-> ents, targetingState |-> ts, currentTarget |-> current,
         calls |-> <<>>],
        Len(ents), playerEntityId, currentTime, deltaTime, draws, r1, r2, callback)

\* the draws of Math.random() one tick may make: one per monster for the
\* Monster AI, two for the Player Combat System
TickDraws ==
    [{id \in Ids(entities) : isMonster(entities, id)} -> RandomDraws]

WorldUpdate(deltaTime) ==
    \E draws \in TickDraws, r1 \in RandomDraws, r2 \in RandomDraws :
        LET out == worldUpdate(entities, targetingState, currentTarget, worldSystems,
                               aiPlayerEntityId, now, deltaTime, draws, r1, r2,
                               clearTargetCallback)
        IN  /\ entities' = out.entities
            /\ targetingState' = out.targetingState
            /\ currentTarget' = out.currentTarget
            /\ lastCall' = [Call("world.update", "void") EXCEPT !.calls = out.calls]
            /\ UNCHANGED <<now, aiPlayerEntityId, skillSystem, ecsWorld,
                           skillCooldowns, removals, clearTargetCallback,
                           worldSystems, manager>>

\* ECSWorld.addSystem
AddSystem(name) ==
    /\ name \notin Range(worldSystems)
    /\ worldSystems' = Append(worldSystems, name)
    /\ lastCall' = Call("world.addSystem", "void")
    /\ UNCHANGED <<now, entities, aiPlayerEntityId, targetingState, skillSystem,
                   ecsWorld, skillCooldowns, removals, clearTargetCallback,
                   currentTarget, manager>>

\* the systems initializeSystems has yet to construct, in its order
RECURSIVE missingSystems(_, _)
missingSystems(names, have) ==
    IF names = <<>> THEN <<>>
    ELSE (IF Head(names) \in have THEN <<>> ELSE <<Head(names)>>)
            \o missingSystems(Tail(names), have)

\* SystemManager.initializeSystems: constructs the five systems and adds them
\* to the World; it hands no system a reference to another or to the World
InitializeSystems ==
    /\ ~manager.initialized
    /\ worldSystems' = worldSystems \o missingSystems(SystemNames, manager.systems)
    /\ manager' = [initialized |-> TRUE,
                   systems |-> manager.systems \cup Range(SystemNames)]
    /\ lastCall' = Call("manager.initializeSystems", "void")
    /\ UNCHANGED <<now, entities, aiPlayerEntityId, targetingState, skillSystem,
                   ecsWorld, skillCooldowns, removals, clearTargetCallback,
                   currentTarget>>

\* SystemManager.setPlayerEntity: for the Monster AI, if there is one
ManagerSetPlayerEntity ==
    /\ "monsterAI" \in manager.systems
    /\ SetPlayerEntity

\* SkillSystem.setECSWorld, once there is a Skill System
WorldSetECSWorld ==
    /\ "skills" \in manager.systems
    /\ SetECSWorld

\* the World and its manager are constructed, the scene's entities created;
\* no system is
WorldScenes ==
    {Scene(PlayerHealth, <<DefaultAccuracy, DefaultCriticalChance>>,
           MonsterHealth, x, "enemy", "idle") : x \in {Units(2), Units(8)}}

WorldInit ==
    /\ now = StartTime
    /\ entities \in WorldScenes
    /\ aiPlayerEntityId = Null
    /\ targetingState = [selectedTarget |-> Null, lastAttackTime |-> 0]
    /\ skillSystem = FALSE
    /\ ecsWorld = FALSE
    /\ skillCooldowns = NoComponents
    /\ removals = 0
    /\ lastCall = Call("none", "void")
    /\ clearTargetCallback = FALSE
    /\ currentTarget = Null
    /\ worldSystems = <<>>
    /\ manager = [initialized |-> FALSE, systems |-> {}]

\* a tick of 1 s
WorldDeltaTimes == {2}

\* points level with a projectile, 8.0 and 12.0 from the origin
WorldTargets == {Vector3(Units(x), FlightHeight) : x \in {8, 12}}

\* a fireball cast through the Skill System once it has its World
WorldCast ==
    \E targetPosition \in WorldTargets :
        /\ "skills" \in manager.systems
        /\ SkillCastAt(PlayerEntityId, "fireball", targetPosition)
        /\ Cardinality(Ids(entities') \cap Range(ProjectileIds)) <= MaxProjectiles

WorldNext ==
    \/ AdvanceClock
    \/ InitializeSystems
    \/ AddSystem(SpawnerName)
    \/ ManagerSetPlayerEntity
    \/ WorldSetECSWorld
    \/ WorldCast
    \/ \E deltaTime \in WorldDeltaTimes : WorldUpdate(deltaTime)

WorldSpec == WorldInit /\ [][WorldNext]_vars

\* what one ECSWorld.update would do to the present state
WorldUpdateNow(deltaTime, draws, r1, r2) ==
    worldUpdate(entities, targetingState, currentTarget, worldSystems,
                aiPlayerEntityId, now, deltaTime, draws, r1, r2, clearTargetCallback)

\* C15: ECSWorld.update(dt) calls the update of every registered system
\* exactly once, in registration order, and hands all of them the entity list
\* taken at the start of the call: an entity whose fragments an earlier system
\* destroyed is still in the list of the later ones, and an entity created
\* during the tick is in none.
C15_OneSnapshotForAllSystems ==
    \A deltaTime \in WorldDeltaTimes, draws \in TickDraws,
       r1 \in RandomDraws, r2 \in RandomDraws :
        LET out == WorldUpdateNow(deltaTime, draws, r1, r2)
        IN  /\ Len(out.calls) = Len(worldSystems)
            /\ \A i \in 1..Len(out.calls) :
                  /\ out.calls[i].system = worldSystems[i]
                  /\ out.calls[i].list = IdsOf(entities)
                  /\ \A id \in Ids(entities) :
                        getEntity(out.entities, id).components = NoComponents
                        => id \in Range(out.calls[i].list)
                  /\ \A id \in Ids(out.entities) \ Ids(entities) :
                        id \notin Range(out.calls[i].list)

\* a tick of the spawner and the five systems, in that order: the Projectile
\* System was handed a projectile with its fragments and destroyed it, the
\* Collision System was handed it without, and the entity the spawner created
\* is in the index and in no system's list
C15_Witness ==
    /\ lastCall.op = "world.update"
    /\ [i \in 1..Len(lastCall.calls) |-> lastCall.calls[i].system]
          = <<SpawnerName>> \o SystemNames
    /\ ProjectileIds[1] \in lastCall.calls[5].carrying
    /\ ProjectileIds[1] \in Range(lastCall.calls[6].list)
    /\ ProjectileIds[1] \notin lastCall.calls[6].carrying
    /\ SpawnedIds[1] \in Ids(entities)
    /\ \A i \in 1..6 : SpawnedIds[1] \notin Range(lastCall.calls[i].list)

(***************************************************************************)
(* PlayerCombatSystem.castSkill and the wiring of the systems.             *)
(***************************************************************************)
\* the arguments of PlayerCombatSystem.castSkill: no position, or one
GivenTargets(skillId) == {{}} \cup {{t} : t \in CastTargets(entities, skillId)}

\* what PlayerCombatSystem.castSkill would answer and do in the present state
PlayerCastNow(skillId, given) ==
    playerCastSkill(entities, skillCooldowns, targetingState, skillId, given, now,
                    skillSystem, ecsWorld)

\* the selected target is an entity of the World that has a Transform
SelectionHasPosition ==
    /\ targetingState.selectedTarget # Null
    /\ Has(entities, targetingState.selectedTarget, {"transform"})

\* C19: PlayerCombatSystem.castSkill(skillId, targetPosition?) returns false
\* when the player's Health.current <= 0, and when no targetPosition is given
\* and no selected target exists with a Transform; otherwise it casts, as the
\* Skill System's castSkill does for the player, at the explicit position if
\* given, else at the selected target's current position.
C19_CastSkillResolvesTarget ==
    \A skillId \in {"lightning", "heal"} :
        \A given \in GivenTargets(skillId) :
            LET out == PlayerCastNow(skillId, given)
                dead == /\ Has(entities, PlayerEntityId, {"health"})
                        /\ Current(entities, PlayerEntityId) <= 0
                unresolved == given = {} /\ ~SelectionHasPosition
                position == IF given # {} THEN CHOOSE t \in given : TRUE
                            ELSE Position(entities, targetingState.selectedTarget)
            IN  /\ dead => ~out.ret
                /\ unresolved => ~out.ret
                /\ (~dead /\ ~unresolved)
                      => out = castSkill(entities, skillCooldowns, PlayerEntityId,
                                         skillId, position, now, ecsWorld)

\* C20: after SystemManager.initializeSystems() the Player Combat System
\* holds the Skill System and the Skill System holds the World, so that
\* PlayerCombatSystem.castSkill of a known projectile skill off cooldown at an
\* in-range position, by a living fragment-complete player, returns true and
\* creates the projectile entity in the World.
C20_InitializeSystemsWires ==
    lastCall.op = "manager.initializeSystems"
    => /\ skillSystem
       /\ ecsWorld
       /\ \A given \in GivenTargets("lightning") :
             (/\ given # {}
              /\ Has(entities, PlayerEntityId,
                     {"transform", "health", "combatStats", "faction"})
              /\ Current(entities, PlayerEntityId) > 0
              /\ CooldownElapsed(PlayerEntityId, "lightning")
              /\ CasterInRange(PlayerEntityId, "lightning", CHOOSE t \in given : TRUE))
             => LET out == PlayerCastNow("lightning", given)
                IN  /\ out.ret
                    /\ Projectiles(out.entities) # Projectiles(entities)

(***************************************************************************)
(* The projectile a cast creates.                                          *)
(***************************************************************************)
\* the skills of the registry that have type projectile
ProjectileSkillIds == {id \in DOMAIN SKILLS : SKILLS[id].type = "projectile"}

\* the entities are those of before, each as it was, followed by one new
\* entity, which carries the Transform and the Projectile of a cast of the
\* skill by the caster at the target position
OneProjectileAdded(before, after, casterId, skillId, targetPosition) ==
    /\ Len(after) = Len(before) + 1
    /\ SubSeq(after, 1, Len(before)) = before
    /\ after[Len(after)].id \notin Ids(before)
    /\ LET new == after[Len(after)].components
           skill == SKILLS[skillId]
       IN  /\ DOMAIN new = {"transform", "projectile"}
           /\ new.transform.position
                 = Vector3(Position(before, casterId).x,
                           Position(before, casterId).y + 2)
           /\ new.projectile.damage = skill.damage
           /\ new.projectile.speed = skill.projectileSpeed
           /\ new.projectile.casterFaction
                 = getComponent(before, casterId, "faction").faction
           /\ new.projectile.maxRange = skill.range
           /\ new.projectile.travelDistance = 0
           /\ new.projectile.targetPosition = targetPosition
           /\ new.projectile.onHitEffect
                 = IF skill.effectRadius # 0 THEN "explosion" ELSE "none"

\* C21: a successful cast of a projectile-type skill adds exactly one new
\* entity to the World, carrying a Transform at the caster's position raised
\* by 0.5 and a Projectile with damage = skill.damage, speed =
\* skill.projectileSpeed, casterFaction = the caster's faction, maxRange =
\* skill.range, travelDistance = 0, targetPosition = the cast target position
\* and onHitEffect = explosion exactly when the skill has an effectRadius.
C21_CastAddsOneProjectile ==
    \A skillId \in ProjectileSkillIds, targetPosition \in CastPoints :
        LET out == CastNow(PlayerEntityId, skillId, targetPosition)
        IN  out.ret => OneProjectileAdded(entities, out.entities, PlayerEntityId,
                                          skillId, targetPosition)

(***************************************************************************)
(* A selection out of reach.                                               *)
(***************************************************************************)
\* the selection is in the list with Transform, Health and Faction, is of a
\* faction the player is hostile to, and is farther from the player than the
\* player's attackRange
SelectionOutOfRange ==
    LET target == targetingState.selectedTarget
        range == getComponent(entities, PlayerEntityId, "combatStats").attackRange
    IN  /\ Has(entities, PlayerEntityId, {"transform", "combatStats", "faction", "health"})
        /\ target # Null
        /\ Has(entities, target, {"transform", "health", "faction"})
        /\ getComponent(entities, target, "faction").faction
              \in getComponent(entities, PlayerEntityId, "faction").hostile
        /\ distanceToSquared(Position(entities, PlayerEntityId),
                             Position(entities, target)) > range * range

\* C22: if the selected target is valid (in the list, fragment-complete,
\* hostile) but farther from the player than the player's attackRange, a
\* PlayerCombatSystem.update tick changes nothing: the selection is kept, the
\* clear-target callback is not invoked, no Health or AI state (no fragment
\* of any entity) changes, and lastAttackTime is unchanged.
C22_OutOfRangeChangesNothing ==
    \A r1 \in RandomDraws, r2 \in RandomDraws :
        SelectionOutOfRange
        => LET out == UpdateNow(r1, r2)
           IN  /\ out.targetingState = targetingState
               /\ out.invoked = <<>>
               /\ out.entities = entities
               /\ out.attacked = Null

\* a tick that found the monster selected 6.0 away, past the attackRange of
\* 5.0, with the attack cooldown over and a callback registered, and that
\* attacked nothing and called nothing
C22_Witness ==
    /\ lastCall = Call("playerCombat.update", "void")
    /\ SelectionOutOfRange
    /\ targetingState.selectedTarget = MonsterId
    /\ Current(entities, PlayerEntityId) > 0
    /\ Current(entities, MonsterId) = MonsterHealth
    /\ now - targetingState.lastAttackTime >= AttackCooldown
    /\ clearTargetCallback

(***************************************************************************)
(* The player's Health: monster attacks, heals, the player's own           *)
(* projectiles and respawn.                                                *)
(***************************************************************************)
\* the store's respawnPlayer: the selection is cleared through
\* setCurrentTarget(null) and the player's Health.current is set to the
\* maximum.  The store's player.position, targetPosition and isMoving, which
\* it resets too, are no fragments of the World.
respawnPlayer(ents, current, ts, systems) ==
    LET store == setCurrentTarget(current, ts, Null, systems)
    IN  [currentTarget |-> store.currentTarget,
         targetingState |-> store.targetingState,
         entities |->
             IF hasComponent(ents, PlayerEntityId, "health")
             THEN LET healthComponent == getComponent(ents, PlayerEntityId, "health")
                  IN  setComponent(ents, PlayerEntityId, "health",
                          [healthComponent EXCEPT !.current = healthComponent.maximum])
             ELSE ents]

RespawnPlayer ==
    LET out == respawnPlayer(entities, currentTarget, targetingState, worldSystems)
    IN  /\ entities' = out.entities
        /\ currentTarget' = out.currentTarget
        /\ targetingState' = out.targetingState
        /\ lastCall' = Call("respawnPlayer", "void")
        /\ UNCHANGED <<now, aiPlayerEntityId, skillSystem, ecsWorld, skillCooldowns,
                       removals, clearTargetCallback, worldSystems, manager>>

\* the player at 70 of 100 or one monster hit from death, with a hostile
\* monster 1.0 away
HealthScenes ==
    {Scene(current, <<100, 0>>, MonsterHealth, Units(1), "enemy", "idle") :
        current \in {140, WornDown}}

HealthInit ==
    /\ InitSystems
    /\ entities \in HealthScenes
    /\ aiPlayerEntityId = PlayerEntityId
    /\ skillSystem = FALSE
    /\ ecsWorld = FALSE

\* a heal of the player, cast at any point
HealCast == SkillCast(PlayerEntityId, "heal")

\* a fireball of the player, cast at the point 2.0 away and level with it:
\* it flies 4.0 in a tick of half a second, past the point, and turns back
\* to where the player stands
FireballCast ==
    /\ SkillCastAt(PlayerEntityId, "fireball", Vector3(Units(2), FlightHeight))
    /\ Cardinality(Ids(entities') \cap Range(ProjectileIds)) <= MaxProjectiles

HealthProjectileTick == \E deltaTime \in DeltaTimes : ProjectileUpdate(deltaTime)

\* the player is the only caster: heals and fireballs, between ticks of the
\* Monster AI and of the Projectile System and respawns.  The player's melee
\* writes the Health of its target alone, which is never the player (update
\* clears a selection of a faction the player is not hostile to).
HealthNext ==
    \/ AdvanceClock
    \/ SetECSWorld
    \/ MonsterAIUpdate
    \/ HealCast
    \/ FireballCast
    \/ HealthProjectileTick
    \/ RespawnPlayer

HealthSpec == HealthInit /\ [][HealthNext]_vars

\* C23: in every reachable state the player's Health.current lies in
\* [0, Health.maximum], under any interleaving of update ticks, monster
\* attacks, heal casts and respawn, when the player is the only caster of
\* skills.
C23_PlayerHealthInBounds ==
    Has(entities, PlayerEntityId, {"health"})
    => /\ Current(entities, PlayerEntityId) >= 0
       /\ Current(entities, PlayerEntityId)
             <= getComponent(entities, PlayerEntityId, "health").maximum

\* the player killed by a monster hit that would have taken more than was
\* left, after the player's fireball had flown over the player and expired
C23_Witness ==
    /\ Current(entities, PlayerEntityId) = 0
    /\ Has(entities, MonsterId, {"ai"})
    /\ getComponent(entities, MonsterId, "ai").lastAttackTime >= StartTime
    /\ Exists(entities, ProjectileIds[1])
    /\ getEntity(entities, ProjectileIds[1]).components = NoComponents

(***************************************************************************)
(* The attacks of a monster.                                               *)
(***************************************************************************)
\* a living monster hostile to the player, in the given state, at a tick
\* that sees it
MonsterIn(id, state) ==
    /\ TickSeesMonster(id)
    /\ Current(entities, id) > 0
    /\ "player" \in getComponent(entities, id, "faction").hostile
    /\ AIState(entities, id) = state

\* the whole hit points a monster's attack may take: max(1, damage) to
\* damage + 4, for a whole damage (counted in half HP)
AttackDamages(id) ==
    LET damage == getComponent(entities, id, "combatStats").damage \div 2
    IN  (IF damage >= 1 THEN damage ELSE 1)..(damage + 4)

\* C24: a monster in state attack damages the player in a tick only if
\* now - lastAttackTime >= attackCooldown, and then sets lastAttackTime = now,
\* so that two damage applications of a monster are at least attackCooldown
\* apart; each application lowers the player's Health.current by a whole
\* number between max(1, damage) and damage + 4, stopping at 0.
C24_MonsterAttackCooldown ==
    /\ [](\A id \in {MonsterId}, deltaTime \in DeltaTimes, r \in RandomDraws :
            (/\ MonsterIn(id, "attack")
             /\ Has(entities, id, {"combatStats"})
             /\ Has(entities, PlayerEntityId, {"health"}))
            => LET ai == getComponent(entities, id, "ai")
                   out == TickNow(deltaTime, r)
                   before == Current(entities, PlayerEntityId)
                   after == Current(out, PlayerEntityId)
               IN  IF now - ai.lastAttackTime >= ai.attackCooldown
                   THEN /\ getComponent(out, id, "ai").lastAttackTime = now
                        /\ \E d \in AttackDamages(id) :
                              after = IF before - HP(d) >= 0 THEN before - HP(d)
                                      ELSE 0
                   ELSE /\ getComponent(out, id, "ai").lastAttackTime = ai.lastAttackTime
                        /\ after = before)
    /\ [][\A id \in {MonsterId} :
            (/\ Has(entities, id, {"ai"}) /\ Has(entities', id, {"ai"})
             /\ getComponent(entities', id, "ai").lastAttackTime
                   # getComponent(entities, id, "ai").lastAttackTime)
            => /\ getComponent(entities', id, "ai").lastAttackTime = now
               /\ now - getComponent(entities, id, "ai").lastAttackTime
                     >= getComponent(entities, id, "ai").attackCooldown]_vars

\* a monster that has attacked twice, 1.0 s apart, taking 19 and 15 of the
\* player's 100 hit points
C24_Witness ==
    /\ Has(entities, MonsterId, {"ai"})
    /\ AIState(entities, MonsterId) = "attack"
    /\ getComponent(entities, MonsterId, "ai").lastAttackTime = StartTime + 2
    /\ now = StartTime + 2
    /\ Has(entities, PlayerEntityId, {"health"})
    /\ Current(entities, PlayerEntityId) = PlayerHealth - HP(19) - HP(15)

(***************************************************************************)
(* Chase and attack: monsters of an aggroRange of 3 and 4, hit by the      *)
(* player from afar or standing in the player, which the Collision System  *)
(* pushes away.                                                            *)
(***************************************************************************)
\* the aggroRange of the scene's monsters: 3.0 and 4.0
ChaseAggroRanges == {Units(3), Units(4)}

\* where the monster is spawned: 0.5, 2.0, 4.5, 4.75 and 5.0 from the player
ChaseStarts == {2, Units(2), 18, 19, Units(5)}

ChaseScenes ==
    {[Scene(PlayerHealth, <<100, 0>>, MonsterHealth, x, "enemy", "idle")
         EXCEPT ![2].components.ai.aggroRange = aggroRange] :
        x \in ChaseStarts, aggroRange \in ChaseAggroRanges}

ChaseInit ==
    /\ InitSystems
    /\ entities \in ChaseScenes
    /\ aiPlayerEntityId = PlayerEntityId
    /\ skillSystem = FALSE
    /\ ecsWorld = FALSE

ChaseNext ==
    \/ AdvanceClock
    \/ \E id \in {MonsterId} : SetTarget(id)
    \/ PlayerCombatUpdate
    \/ MonsterAIUpdate
    \/ \E deltaTime \in CollisionDeltaTimes : CollisionUpdate(deltaTime)

ChaseSpec == ChaseInit /\ [][ChaseNext]_vars

\* the square of the monster's distance to the player
DistanceSquared(id) ==
    distanceToSquared(Position(entities, id), Position(entities, PlayerEntityId))

TimePasses ==
    /\ targetingState.lastAttackTime > now - AttackCooldown
    /\ targetingState' = [targetingState EXCEPT !.lastAttackTime = @ - 1]
    /\ UNCHANGED <<now, entities, aiPlayerEntityId, skillSystem, ecsWorld,
                   skillCooldowns, removals, lastCall, clearTargetCallback,
                   currentTarget, worldSystems, manager>>

\* the exterior selects the monster while it lives
SelectLiving ==
    /\ Has(entities, MonsterId, {"health"})
    /\ Current(entities, MonsterId) > 0
    /\ SetTarget(MonsterId)

MeleeNext ==
    \/ TimePasses
    \/ SelectLiving
    \/ TryAttack
    \/ PlayerCombatUpdate

\* the frame loop ticks the Player Combat System again and again, and time
\* passes
MeleeLiveSpec ==
    /\ Init
    /\ [][MeleeNext]_vars
    /\ WF_vars(TimePasses)
    /\ WF_vars(PlayerCombatUpdate)

\* the last call was an update tick that resolved an attack
AttackResolved ==
    /\ lastCall.op = "playerCombat.update"
    /\ lastCall.attacked # Null

\* C26: if a hostile living target stays selected and within attackRange and
\* the player stays alive, then a melee attack is eventually resolved by
\* PlayerCombatSystem.update, whatever the interleaving of tryAttack() calls
\* with update ticks as wall-clock time advances.
C26_AttackEventuallyResolved ==
    ReadyToAttack ~> (~ReadyToAttack \/ AttackResolved)

(***************************************************************************)
(* The Monster AI and a dead player.                                       *)
(***************************************************************************)
\* C27: dead entities are excluded from AI targeting: while the player's
\* Health.current <= 0, no monster goes into chase or attack against the
\* player in a tick, and no monster attack is performed on the player (no
\* monster's lastAttackTime is stamped).
C27_DeadPlayerIsLeftAlone ==
    \A id \in {MonsterId}, deltaTime \in DeltaTimes, r \in RandomDraws :
        (/\ TickSeesMonster(id)
         /\ Has(entities, PlayerEntityId, {"health"})
         /\ Current(entities, PlayerEntityId) <= 0)
        => LET ai == getComponent(entities, id, "ai")
               after == getComponent(TickNow(deltaTime, r), id, "ai")
           IN  /\ after.state \in {"chase", "attack"} => after.state = ai.state
               /\ after.lastAttackTime = ai.lastAttackTime

(***************************************************************************)
(* Whom a projectile hurts: a wounded or unhurt first monster under the    *)
(* flight path, of the enemy's or of the player's faction, a second one    *)
(* 2.0 behind it, and fragments the exterior takes off them.               *)
(***************************************************************************)
HitScenes ==
    {Scene(PlayerHealth, <<DefaultAccuracy, DefaultCriticalChance>>,
           firstCurrent, Units(4), firstFaction, "idle")
       \o <<[id |-> SecondMonsterId,
             components |->
                 [MonsterComponents(current, Units(6), faction, "idle") EXCEPT
                     !.transform = createTransformComponent(
                                       Vector3(Units(6), FlightHeight))]]>> :
        firstCurrent \in {MonsterHealth, Wounded}, firstFaction \in {"enemy", "player"},
        faction \in {"enemy", "neutral", "player"}, current \in {MonsterHealth, 0}}

HitInit ==
    /\ InitSystems
    /\ entities \in HitScenes
    /\ aiPlayerEntityId = PlayerEntityId
    /\ skillSystem = FALSE
    /\ ecsWorld = FALSE

\* the fragments the exterior takes off the monsters
HitRemovable == {MonsterId, SecondMonsterId} \X {"transform", "faction", "health"}

HitNext ==
    \/ SetECSWorld
    \/ \E skillId \in {"fireball", "lightning"} : ProjectileCast(skillId)
    \/ ProjectileTick
    \/ \E r \in HitRemovable : RemoveComponent(r[1], r[2])

HitSpec == HitInit /\ [][HitNext]_vars

\* a projectile may not touch the entity: it is of the caster's faction, or
\* dead, or lacks Transform or Faction
Spared(id, e) ==
    \/ ~Has(entities, e, {"transform", "faction"})
    \/ Current(entities, e) <= 0
    \/ getComponent(entities, e, "faction").faction
          = getComponent(entities, id, "projectile").casterFaction

\* C28: a projectile's direct hit and its explosion never reduce the Health
\* of an entity whose faction is the projectile's casterFaction, nor of an
\* entity whose Health.current is already <= 0 at that moment (so an entity
\* the direct hit has killed loses nothing to the explosion), nor of an
\* entity lacking Transform, Health or Faction.
C28_ProjectilesSpare ==
    \A id \in FlyingProjectiles, deltaTime \in ProjectileDeltaTimes :
        LET out == updateProjectile(entities, id, deltaTime)
            damage == getComponent(entities, id, "projectile").damage
            reach == InReach(id, EndOfTick(id, deltaTime).position)
            withHealth == {e \in Ids(entities) \ {id} : Has(entities, e, {"health"})}
        IN  /\ \A e \in Ids(entities) \ {id} :
                  Has(entities, e, {"health"}) <=> Has(out, e, {"health"})
            /\ \A e \in withHealth :
                  /\ Spared(id, e) => Current(out, e) = Current(entities, e)
                  /\ Current(out, e) < Current(entities, e)
                        => (reach # {} /\ ~Spared(id, e))
            /\ reach # {}
                  => \E hit \in reach :
                        /\ Current(out, hit) <= Current(entities, hit) - damage
                        /\ Current(entities, hit) - damage <= 0
                              => Current(out, hit) = Current(entities, hit) - damage

\* a fireball has killed the wounded first monster with its direct hit
\* alone, and its explosion has spared the second monster, 2.0 away and of
\* the player's faction
C28_Witness ==
    /\ lastCall.op = "projectiles.update"
    /\ Exists(entities, ProjectileIds[1])
    /\ getEntity(entities, ProjectileIds[1]).components = NoComponents
    /\ Has(entities, MonsterId, {"health", "transform", "faction"})
    /\ Current(entities, MonsterId) = Wounded - 70
    /\ Has(entities, SecondMonsterId, {"health", "transform", "faction"})
    /\ getComponent(entities, SecondMonsterId, "faction").faction = "player"
    /\ Current(entities, SecondMonsterId) = MonsterHealth

(***************************************************************************)
(* The attack update resolves: hit, miss, critical hit.                    *)
(***************************************************************************)
\* C29: a resolved player attack that hits sets the target's AI (if it has
\* one) to state chase with AI.target = the player's id; an attack that
\* misses applies no damage and leaves the target's AI state and AI.target
\* unchanged (aggro is on hit).
C29_AggroOnHit ==
    \A r1 \in RandomDraws, r2 \in RandomDraws :
        LET out == UpdateNow(r1, r2)
            target == out.attacked
        IN  (target # Null /\ Has(entities, target, {"ai"}))
            => LET ai == getComponent(entities, target, "ai")
                   after == getComponent(out.entities, target, "ai")
               IN  IF Current(out.entities, target) < Current(entities, target)
                   THEN after.state = "chase" /\ after.target = PlayerEntityId
                   ELSE /\ Current(out.entities, target) = Current(entities, target)
                        /\ after.state = ai.state
                        /\ after.target = ai.target

\* Math.random() draws at the thresholds performAttack compares them with:
\* exactly criticalChance (0.05) and exactly accuracy (0.9), and the two ends
BoundaryDraws == {0, DefaultCriticalChance, DefaultAccuracy, 99}

\* PlayerCombatSystem.update, with the draws of performAttack among those
PlayerCombatUpdateAtBoundary ==
    \E r1 \in BoundaryDraws, r2 \in BoundaryDraws :
        LET out == playerCombatUpdate(entities, targetingState, now, r1, r2,
                                      clearTargetCallback)
            store == runCallbacks(currentTarget, out.targetingState, out.invoked,
                                  worldSystems)
        IN  /\ entities' = out.entities
            /\ targetingState' = store.targetingState
            /\ currentTarget' = store.currentTarget
            /\ lastCall' = [Call("playerCombat.update", "void")
                               EXCEPT !.attacked = out.attacked,
                                      !.invoked = out.invoked]
            /\ UNCHANGED <<now, aiPlayerEntityId, skillSystem, ecsWorld,
                           skillCooldowns, removals, clearTargetCallback,
                           worldSystems, manager>>

AccuracyNext ==
    \/ AdvanceClock
    \/ \E id \in {MonsterId, Null} : SetTarget(id)
    \/ PlayerCombatUpdateAtBoundary

AccuracySpec == Init /\ [][AccuracyNext]_vars

\* C30: in a resolved player attack with uniform draw r, the attack hits if
\* and only if r < accuracy (a draw equal to accuracy is a miss, and
\* accuracy = 0 never hits); on a hit the damage subtracted is
\* CombatStats.damage, multiplied by criticalMultiplier exactly when a second
\* uniform draw is < criticalChance, and the selection is cleared exactly
\* when the target's Health.current is then <= 0.
C30_HitIffDrawBelowAccuracy ==
    \A r1 \in BoundaryDraws, r2 \in BoundaryDraws :
        LET out == UpdateNow(r1, r2)
            target == out.attacked
            stats == getComponent(entities, PlayerEntityId, "combatStats")
        IN  target # Null
            => LET lost == Current(entities, target) - Current(out.entities, target)
               IN  /\ lost # 0 <=> r1 < stats.accuracy
                   /\ lost # 0
                         => /\ lost = IF r2 < stats.criticalChance
                                      THEN (stats.damage * stats.criticalMultiplier) \div 2
                                      ELSE stats.damage
                            /\ out.targetingState.selectedTarget = Null
                                  <=> Current(out.entities, target) <= 0

(***************************************************************************)
(* Monsters that are not hostile to the player: a neutral one and one of   *)
(* the player's faction, which the player shoots at and tries to strike.   *)
(***************************************************************************)
\* where the monster stands: within 1.5, within the aggroRange, beyond it
NeutralStarts == {Units(1), Units(4), Units(6)}

NeutralScenes ==
    {Scene(PlayerHealth, <<100, 0>>, MonsterHealth, x, faction, "idle") :
        x \in NeutralStarts, faction \in {"neutral", "player"}}

NeutralInit ==
    /\ InitSystems
    /\ entities \in NeutralScenes
    /\ aiPlayerEntityId = PlayerEntityId
    /\ skillSystem = FALSE
    /\ ecsWorld = FALSE

NeutralNext ==
    \/ AdvanceClock
    \/ SetECSWorld
    \/ SetTarget(MonsterId)
    \/ PlayerCombatUpdate
    \/ MonsterAIUpdate
    \/ \E skillId \in {"fireball", "iceShard"} : ProjectileCast(skillId)
    \/ ProjectileTick

NeutralSpec == NeutralInit /\ [][NeutralNext]_vars

\* the states of the type AIComponent
AIStates == {"idle", "patrol", "chase", "attack", "dead"}

\* the entities with the AI fragment of the monster in the given state
InAIState(ents, id, state) ==
    setComponent(ents, id, "ai", [getComponent(ents, id, "ai") EXCEPT !.state = state])

NotHostileToPlayer(id) ==
    /\ TickSeesMonster(id)
    /\ "player" \notin getComponent(entities, id, "faction").hostile

\* C31: a monster whose Faction.hostile list does not contain 'player' is
\* never moved by the Monster AI System and never damages the player, in any
\* AI state and at any distance, including after the player has attacked it.
C31_NotHostileNeverEngages ==
    \A deltaTime \in DeltaTimes, r \in RandomDraws, state \in AIStates :
        NotHostileToPlayer(MonsterId)
        => LET out == monsterAIUpdate(InAIState(entities, MonsterId, state),
                                      aiPlayerEntityId, now, deltaTime,
                                      [id \in Ids(entities) |-> r])
           IN  /\ getComponent(out, MonsterId, "transform")
                     = getComponent(entities, MonsterId, "transform")
               /\ Has(entities, MonsterId, {"movement"})
                     => getComponent(out, MonsterId, "movement")
                           = getComponent(entities, MonsterId, "movement")
               /\ Has(entities, PlayerEntityId, {"health"})
                     => Current(out, PlayerEntityId) = Current(entities, PlayerEntityId)
               /\ TickNow(deltaTime, r) = entities
                     \/ Current(entities, MonsterId) <= 0

\* a living neutral monster wounded by the player's ice shard, at a tick
\* whose attack cooldown is over
C31_Witness ==
    /\ NotHostileToPlayer(MonsterId)
    /\ getComponent(entities, MonsterId, "faction").faction = "neutral"
    /\ Current(entities, MonsterId) > 0
    /\ Current(entities, MonsterId) < MonsterHealth
    /\ now > StartTime

\* C32: a monster reduces the player's Health only in a tick in which it is
\* in state attack and its distance to the player at that tick is at most
\* 2.0.
C32_DamageOnlyWithinAttackReach ==
    \A deltaTime \in DeltaTimes, r \in RandomDraws :
        (/\ TickSeesMonster(MonsterId)
         /\ Has(entities, PlayerEntityId, {"health"})
         /\ Current(TickNow(deltaTime, r), PlayerEntityId)
               < Current(entities, PlayerEntityId))
        => /\ AIState(entities, MonsterId) = "attack"
           /\ DistanceSquared(MonsterId) <= AttackLeaveRange * AttackLeaveRange

(***************************************************************************)
(* Piercing projectiles.  No skill of the registry makes one: the exterior *)
(* builds one from createProjectileComponent with onHitEffect 'pierce'.    *)
(***************************************************************************)
\* a piercing projectile of the player's faction: damage 10, speed 4.0 per
\* second, aimed at the point 8.0 along the line the monsters stand on,
\* maxRange 20
PierceProjectile ==
    createProjectileComponent(HP(10), Units(2), Vector3(Units(8), FlightHeight),
                              "player", Units(20), "pierce", 0)

\* the exterior creates an entity 0.5 above the player and gives it the
\* piercing projectile
LaunchPierce ==
    LET id == newProjectileId(entities)
        created == createEntity(entities, id)
        placed == setComponent(created, id, "transform",
                      createTransformComponent(Vector3(0, FlightHeight)))
    IN  /\ Cardinality(Ids(entities) \cap Range(ProjectileIds)) < MaxProjectiles
        /\ entities' = setComponent(placed, id, "projectile", PierceProjectile)
        /\ lastCall' = Call("world.createEntity", id)
        /\ UNCHANGED <<now, aiPlayerEntityId, targetingState, skillSystem, ecsWorld,
                       skillCooldowns, removals, clearTargetCallback,
                       currentTarget, worldSystems, manager>>

PierceNext ==
    \/ SetECSWorld
    \/ \E skillId \in {"fireball", "iceShard"} : ProjectileCast(skillId)
    \/ LaunchPierce
    \/ ProjectileTick

PierceSpec == HitInit /\ [][PierceNext]_vars

Destroyed(ents, id) == Exists(ents, id) /\ getEntity(ents, id).components = NoComponents

Pierces(id) == getComponent(entities, id, "projectile").onHitEffect = "pierce"

\* C33: on a direct hit a projectile is destroyed in that same tick if and
\* only if its onHitEffect is not pierce: a non-pierce projectile therefore
\* lands at most one direct hit in its lifetime (once destroyed it stays
\* destroyed, and a tick without a flying projectile changes nothing), and a
\* pierce projectile keeps its Projectile and Transform fragments after any
\* hit and is never destroyed by a hit.
C33_PierceSurvivesHits ==
    /\ [](\A deltaTime \in ProjectileDeltaTimes :
            /\ \A id \in FlyingProjectiles :
                  InReach(id, EndOfTick(id, deltaTime).position) # {}
                  => LET out == updateProjectile(entities, id, deltaTime)
                     IN  /\ Destroyed(out, id) <=> ~Pierces(id)
                         /\ Pierces(id) => Flying(out, id)
                         /\ \E e \in InReach(id, EndOfTick(id, deltaTime).position) :
                               Current(out, e) < Current(entities, e)
            /\ FlyingProjectiles = {}
                  => projectileUpdate(entities, deltaTime) = entities)
    /\ [][\A i \in 1..Len(ProjectileIds) :
            Destroyed(entities, ProjectileIds[i])
            => Destroyed(entities', ProjectileIds[i])]_vars

\* a piercing projectile that has hit the first monster and then the second
\* one, and flies on
C33_Witness ==
    /\ lastCall.op = "projectiles.update"
    /\ Flying(entities, ProjectileIds[1])
    /\ Pierces(ProjectileIds[1])
    /\ Has(entities, MonsterId, {"health"})
    /\ Current(entities, MonsterId) = MonsterHealth - PierceProjectile.damage
    /\ Has(entities, SecondMonsterId, {"health"})
    /\ Current(entities, SecondMonsterId) = MonsterHealth - PierceProjectile.damage

(***************************************************************************)
(* The World's index under casting and ticking without end: the player     *)
(* keeps casting fireballs (a cast within the cooldown answers false) and  *)
(* the Projectile System keeps ticking.                                    *)
(***************************************************************************)
IndexCast == ProjectileCast("fireball")

IndexNext ==
    \/ AdvanceClock
    \/ SetECSWorld
    \/ IndexCast
    \/ ProjectileTick

\* the wall clock goes on (as far as the model follows it), and ticks and
\* casts that change the state come again and again: a tick records itself
\* as the last call, and so does a cast, also one that answers false
IndexLiveSpec ==
    ProjectileInit /\ [][IndexNext]_vars
        /\ WF_vars(AdvanceClock)
        /\ []<><<ProjectileTick>>_vars /\ []<><<IndexCast>>_vars

\* C34: every projectile entity spawned by a cast is eventually absent from
\* the World's entity index (getEntity(id) returns absent and it is not in
\* getAllEntities()), so the number of indexed entities stays bounded under
\* repeated casting and ticking.
C34_ProjectilesLeaveIndex ==
    \A i \in 1..Len(ProjectileIds) :
        Exists(entities, ProjectileIds[i]) ~> ~Exists(entities, ProjectileIds[i])

\* C35: in every reachable state of a monster whose AI fragment was created
\* by createAIComponent: AI.state in {chase, attack} implies AI.target is set
\* to the player's id, and AI.state = idle implies AI.target is unset.
C35_TargetFollowsState ==
    \A id \in {MonsterId} :
        Has(entities, id, {"ai"})
        => LET ai == getComponent(entities, id, "ai")
           IN  /\ ai.state \in {"chase", "attack"} => ai.target = PlayerEntityId
               /\ ai.state = "idle" => ai.target = Undefined

\* a monster the player's hit had set chasing, from beyond 1.5 x aggroRange:
\* the tick moved it and sent it back to idle, its target unset
C35_Witness ==
    /\ Has(entities, MonsterId, {"ai", "health", "transform"})
    /\ AIState(entities, MonsterId) = "idle"
    /\ getComponent(entities, MonsterId, "ai").target = Undefined
    /\ getComponent(entities, MonsterId, "ai").lastTargetPosition # {}
    /\ Current(entities, MonsterId) < MonsterHealth
    /\ Current(entities, MonsterId) > 0

(***************************************************************************)
(* The System Manager reset and initialized again on the same World.       *)
(***************************************************************************)
\* the systems of a World that was set up once: the five and a spawner
MaxWorldSystems == 6

\* SystemManager.reset, and the getInstance that follows it: the manager's
\* map is cleared, initialized = false, and the next getInstance constructs
\* a new manager for the World.  The World's list of systems is not touched.
\* The exterior resets a World that holds no more than one set of systems.
\* The model keeps one state for each system name: the instances of one
\* name in the World's list are updated with that state.
ManagerReset ==
    /\ Len(worldSystems) <= MaxWorldSystems
    /\ manager' = [initialized |-> FALSE, systems |-> {}]
    /\ lastCall' = Call("manager.reset", "void")
    /\ UNCHANGED <<now, entities, aiPlayerEntityId, targetingState, skillSystem,
                   ecsWorld, skillCooldowns, removals, clearTargetCallback,
                   currentTarget, worldSystems>>

ManagerNext ==
    \/ AdvanceClock
    \/ InitializeSystems
    \/ ManagerReset
    \/ AddSystem(SpawnerName)
    \/ ManagerSetPlayerEntity
    \/ WorldSetECSWorld
    \/ \E deltaTime \in WorldDeltaTimes : WorldUpdate(deltaTime)

ManagerSpec == WorldInit /\ [][ManagerNext]_vars

\* how many systems of the name the World's list holds
Instances(name) == Cardinality({i \in DOMAIN worldSystems : worldSystems[i] = name})

\* C36: after any sequence of SystemManager.getInstance, initializeSystems
\* and reset calls on one World, the World's system list contains at most one
\* instance of each of the five systems (monsterAI, playerCombat, skills,
\* projectiles, collision), so each system updates at most once per tick.
C36_OneInstancePerSystem ==
    \A name \in Range(SystemNames) : Instances(name) <= 1

(***************************************************************************)
(* Health under whole ticks of the World: a wounded player and a wounded   *)
(* monster 1.0 away, with the factory's regeneration of 1 per second or    *)
(* one of 10 per second, ticks of all five systems, fireballs, heals of    *)
(* either and respawns.                                                    *)
(***************************************************************************)
\* Health.regeneration, in half HP per second: the factory's 1 HP, and 10 HP
Regenerations == {HP(1), HP(10)}

RegenScenes ==
    {[Scene(140, <<100, 0>>, Wounded, Units(1), "enemy", "idle")
         EXCEPT ![1].components.health.regeneration = g,
                ![2].components.health.regeneration = g] :
        g \in Regenerations}

RegenInit ==
    /\ InitSystems
    /\ entities \in RegenScenes
    /\ aiPlayerEntityId = PlayerEntityId
    /\ skillSystem = FALSE
    /\ ecsWorld = FALSE

\* ECSWorld.update with a frame of half a second
WorldTick == \E deltaTime \in DeltaTimes : WorldUpdate(deltaTime)

\* a heal of the monster, cast at any point
MonsterHealCast == SkillCast(MonsterId, "heal")

\* all within one reading of the wall clock: each cooldown lets one attack
\* and one cast of a skill through
RegenNext ==
    \/ SetECSWorld
    \/ SetTarget(MonsterId)
    \/ WorldTick
    \/ FireballCast
    \/ HealCast
    \/ MonsterHealCast
    \/ RespawnPlayer

RegenSpec == RegenInit /\ [][RegenNext]_vars

WithHealth(ents) == {e \in Ids(ents) : Has(ents, e, {"health"})}

\* no Health of the first list is higher in the second
NoHealthRose(before, after) ==
    \A e \in WithHealth(before) \cap WithHealth(after) :
        Current(after, e) <= Current(before, e)

\* what the update of one system would leave of the present entities
SystemUpdateNow(name, deltaTime, draws, r1, r2) ==
    systemUpdate(name,
                 [entities |-> entities, targetingState |-> targetingState,
                  currentTarget |-> currentTarget, calls |-> <<>>],
                 Len(entities), aiPlayerEntityId, now, deltaTime, draws, r1, r2,
                 clearTargetCallback, worldSystems).entities

\* C37: no system update ever increases any entity's Health.current: Health
\* rises only through a successful self-type heal cast or the external
\* respawn, whatever the value of Health.regeneration.
C37_NoRegeneration ==
    /\ [](\A deltaTime \in DeltaTimes, draws \in TickDraws,
             r1 \in RandomDraws, r2 \in RandomDraws :
            /\ \A name \in Range(SystemNames) :
                  NoHealthRose(entities,
                               SystemUpdateNow(name, deltaTime, draws, r1, r2))
            /\ NoHealthRose(entities,
                            WorldUpdateNow(deltaTime, draws, r1, r2).entities))
    /\ [][~NoHealthRose(entities, entities')
            => \/ lastCall' = Call("respawnPlayer", "void")
               \/ /\ lastCall' = Call("skills.castSkill", "true")
                  /\ \E e \in WithHealth(entities) :
                        now \in Stamps(skillCooldowns', e, "heal")]_vars

\* after a tick of the World the player and the monster, both with a
\* regeneration of 10 per second, are as wounded as at the start
C37_Witness ==
    /\ lastCall.op = "world.update"
    /\ Has(entities, PlayerEntityId, {"health"})
    /\ getComponent(entities, PlayerEntityId, "health").regeneration = HP(10)
    /\ Current(entities, PlayerEntityId) = 140
    /\ Has(entities, MonsterId, {"health"})
    /\ getComponent(entities, MonsterId, "health").regeneration = HP(10)
    /\ Current(entities, MonsterId) = Wounded

(***************************************************************************)
(* Entities at exactly the same position: two monsters on the ground or    *)
(* at the height projectiles start from, inside the bounds, on them and    *)
(* beyond them, at the same place or a little apart.                       *)
(***************************************************************************)
\* the x of the first monster on the ground, and at the height of 1.0
GroundXs == {1, 2, 3, Units(5), Units(9), Units(10), Units(11)}
RaisedXs == {Units(5), Units(10)}

\* how far east of the first monster the second one stands
Offsets == {0, 1, 2}

OverlapScenes ==
    {[Scene(PlayerHealth, <<DefaultAccuracy, DefaultCriticalChance>>,
            MonsterHealth, place[1], "enemy", "idle")
         EXCEPT ![2].components.transform =
                    createTransformComponent(Vector3(place[1], place[2]))]
       \o <<[id |-> SecondMonsterId,
             components |->
                 [MonsterComponents(MonsterHealth, place[1] + d, "enemy", "idle")
                     EXCEPT !.transform = createTransformComponent(
                                              Vector3(place[1] + d, place[2]))]]>> :
        place \in (GroundXs \X {GroundY}) \cup (RaisedXs \X {FlightHeight}),
        d \in Offsets}

OverlapInit ==
    /\ InitSystems
    /\ entities \in OverlapScenes
    /\ aiPlayerEntityId = PlayerEntityId
    /\ skillSystem = FALSE
    /\ ecsWorld = FALSE

OverlapNext ==
    \/ \E deltaTime \in CollisionDeltaTimes : CollisionUpdate(deltaTime)
    \/ \E id \in {MonsterId, SecondMonsterId} : RemoveComponent(id, "transform")

OverlapSpec == OverlapInit /\ [][OverlapNext]_vars

\* two entities with a Transform at exactly the same position
Coincide(idA, idB) ==
    /\ idA # idB
    /\ Has(entities, idA, {"transform"})
    /\ Has(entities, idB, {"transform"})
    /\ Position(entities, idA) = Position(entities, idB)

\* no third entity with a Transform is less than 1.0 from the pair
StandAlone(idA, idB) ==
    \A c \in Collidable \ {idA, idB} :
        distanceToSquared(Position(entities, c), Position(entities, idA))
            >= Units(1) * Units(1)

\* C38: two Transform-carrying entities at exactly the same position are
\* left untouched by the CollisionSystem for that pair: neither position
\* changes, no separation is applied and no bounds clamp or height pin is
\* applied.
C38_ExactOverlapUntouched ==
    \A idA \in Collidable, idB \in Collidable, deltaTime \in CollisionDeltaTimes :
        Coincide(idA, idB)
        => /\ resolveCollision(entities, idA, idB, deltaTime) = entities
           /\ StandAlone(idA, idB)
                 => LET out == collisionUpdate(entities, deltaTime)
                    IN  /\ getComponent(out, idA, "transform")
                              = getComponent(entities, idA, "transform")
                        /\ getComponent(out, idB, "transform")
                              = getComponent(entities, idB, "transform")

\* after a tick of the Collision System the two monsters are still at the
\* same place, 10.0 east and 1.0 high: beyond the bounds and off the height
\* of 0.5
C38_Witness ==
    /\ lastCall.op = "collision.update"
    /\ Coincide(MonsterId, SecondMonsterId)
    /\ Position(entities, MonsterId) = Vector3(Units(10), FlightHeight)

\* C39: createEntity with an id that is already in the index raises no
\* error and replaces the indexed entity: getEntity(id) afterwards returns
\* the new, fragment-less entity, and the number of indexed entities does
\* not change.
C39_CreateEntityOverwrites ==
    \A id \in EntityIds :
        Exists(entities, id)
        => LET out == createEntity(entities, id)
           IN  /\ Exists(out, id)
               /\ getEntity(out, id) = [id |-> id, components |-> NoComponents]
               /\ Len(out) = Len(entities)
               /\ Ids(out) = Ids(entities)
               /\ \A other \in Ids(entities) \ {id} :
                     getEntity(out, other) = getEntity(entities, other)

\* the first monster, created again under its id, is in the index without
\* fragments, next to the second one, which has some
C39_Witness ==
    /\ lastCall = Call("world.createEntity", MonsterId)
    /\ Len(entities) = 2
    /\ entities[1] = [id |-> MonsterId, components |-> NoComponents]
    /\ entities[2].id = SecondMonsterId
    /\ entities[2].components # NoComponents
====
